---- MODULE Spec2Model ----
(***************************************************************************)
(* ERC-8092 demo: the association validation engine (validateAssociation   *)
(* and the signature verifiers it dispatches to), the off-chain store's    *)
(* revocation endpoint (PATCH /api/associations) and the key-type resolver *)
(* of the signing hook (getKeyTypeForSignature); the association list of  *)
(* the graph component (its fetches and mergedAssociations), signing and   *)
(* verification across chains, the address codec and the ERC-6492 wrapper. *)
(*                                                                         *)
(* The specifications that share the module:                               *)
(*   Spec         one validateAssociation call, one step per check and per *)
(*                awaited chain query, under a clock that keeps running;   *)
(*   SpecStore    the associations table under a stream of PATCH requests; *)
(*   SpecResolver one getKeyTypeForSignature call;                         *)
(*   SpecMerge    one evaluation of mergedAssociations, one step per loop  *)
(*                iteration;                                               *)
(*   SpecList     one fetch of a source's records, their validateAssoci-   *)
(*                ation calls interleaved under Promise.all;               *)
(*   SpecSigning  one record signed on each chain and verified with the    *)
(*                client of each chain;                                    *)
(*   SpecCodec    extractAddress, addressToErc7930, wrapErc6492Signature   *)
(*                and unwrapErc6492Signature applied to their inputs;      *)
(*   SpecPost     records stored through POST /api/associations and read   *)
(*                back by the graph;                                       *)
(*   SpecFetch    the two fetch effects of the graph under changes of its  *)
(*                target address;                                          *)
(*   SpecCreation the control panel's creation flow: connect, declare the  *)
(*                approver, sign, store, start over;                       *)
(*   SpecFlow     the creation flow together with the entry into revoking  *)
(*                a record selected in the graph;                          *)
(*   SpecRevoke   revoking a stored record from the panel, off-chain and   *)
(*                on-chain.                                                *)
(***************************************************************************)
EXTENDS Integers, Sequences, FiniteSets, TLC

VARIABLES
    aar,          \* the AssociatedAccountRecord passed to validateAssociation
    sar,          \* the SignedAssociationRecord passed to validateAssociation
    publicClient, \* TRUE iff input.publicClient was supplied
    now,          \* the snapshot `now` of the call (validation: line 50)
    clock,        \* the wall clock, Math.floor(Date.now() / 1000)
    isValid,      \* per party, the boolean verifySignature returned, if called
    pc,           \* position of the call: the check it is about to evaluate
    vpc,          \* position inside verifySignature: the chain query awaited
    resp,         \* per party, the chain's answers to the queries issued so far
    log,          \* checks evaluated, verifier calls and chain queries, in order
    result,       \* the ValidationResult returned, once pc = "returned"
    db,           \* the associations table: id -> row
    handler,      \* position of the PATCH handler: idle, handling, responded
    request,      \* the body of the PATCH request being served
    response,     \* the response to it, once the handler has responded
    wallet,       \* useAssociationSigning: the connected address and client
    sigHex,       \* the signature passed to getKeyTypeForSignature
    kpc,          \* position of getKeyTypeForSignature
    bytecode,     \* the answer to its code query, once asked
    keyType,      \* the key type it returned
    onchainAssociations,  \* AssociationsGraph: the on-chain list (React state)
    offchainAssociations, \* AssociationsGraph: the off-chain list (React state)
    pairMap,      \* mergedAssociations: the Map, as its entries in insertion order
    mpc,          \* position of mergedAssociations: the loop and the index in it
    mergedAssociations,   \* the array it returned
    sars,         \* fetchOnchainAssociations: the records the source returned
    chain,        \* the state of the chain the client reads during the fetch
    wallClock,    \* Math.floor(Date.now() / 1000) at the time of the fetch
    calls,        \* per record, the locals of its validateAssociation call
    fpc,          \* position of the fetch: map, all (awaiting), set, caught
    account,      \* signing: the account whose wallet signs
    signedAar,    \* the AAR it signs
    signedOn,     \* per chain the wallet was connected to, the signature made
    verifiedOn,   \* per (chain signed on, chain of the client), the result
    codecArg,     \* codec and wrapper: the first function and its arguments
    codecMid,     \* the string handed to the function applied next or last
    codecRet,     \* what the last function returned
    cpc,          \* the function about to be applied
    storageProps, \* storing: the aar and sar the storage hook was rendered with
    sent,         \* the struct handed to writeContract or the body of the POST
    spc,          \* position of the store handler and of the POST handler
    postNow,      \* the clock at the time of the POST
    postChain,    \* the state of the chain at that time
    validationResult, \* what validateAssociation returned to the POST handler
    accountsTable,    \* the accounts table: the addresses in it
    associationsTable, \* the associations table: its rows in order of insertion
    postResponse, \* the response to the POST
    rebuilt,      \* per row, the record fetchOffchainAssociations rebuilds
    targetAddress, \* AssociationsGraph: the address whose associations show
    flights,      \* the fetches started by the two effects and not yet settled
    effectRuns,   \* how many times the two effects have run
    flowStep,     \* Demo: the step of the creation flow
    writeAar,     \* Home: the AAR of the Write tab
    writeSar,     \* Home: the SAR of the Write tab
    panel,        \* ControlPanel: its local state
    connectedAddress, \* the address of the connected wallet, if any
    signing,      \* the sign handler in flight, with what it captured
    storing,      \* TRUE while the POST of the database method is awaited
    txPending,    \* TRUE while the store transaction is awaited
    isConfirmed,  \* useWaitForTransactionReceipt of the store transaction
    readSelection, \* Home: the association shown in the Read tab
    revokeModeTrigger, \* Home: the counter that starts the revoke mode
    resets,       \* how many times 'Start Over' was clicked
    timeNow,      \* revoking: Math.floor(Date.now() / 1000)
    isRevoking,   \* useDatabaseRevocation: its flag
    revoking,     \* the handleRevoke in flight, with what it captured
    revokeTxPending,   \* TRUE while the revoke transaction is awaited
    isRevokeConfirmed  \* useWaitForTransactionReceipt of that transaction

engineVars == <<aar, sar, publicClient, now, clock, isValid, pc, vpc, resp, log, result>>
storeVars  == <<db, handler, request, response>>
resolverVars == <<wallet, sigHex, kpc, bytecode, keyType>>
mergeVars == <<onchainAssociations, offchainAssociations, pairMap, mpc,
               mergedAssociations>>
\* The variables of the components around the engine, the store and the
\* resolver, which the actions of those three leave alone.
listVars == <<sars, chain, wallClock, calls, fpc>>
signingVars == <<account, signedAar, signedOn, verifiedOn>>
codecVars == <<codecArg, codecMid, codecRet, cpc>>
postVars == <<storageProps, sent, spc, postNow, postChain, validationResult,
              accountsTable, associationsTable, postResponse, rebuilt>>
\* The variables of the components modelled after the codec.
fetchVars == <<targetAddress, flights, effectRuns>>
flowVars == <<flowStep, writeAar, writeSar, panel, connectedAddress, signing,
              storing, txPending, isConfirmed, readSelection, revokeModeTrigger,
              resets>>
revokeVars == <<timeNow, isRevoking, revoking, revokeTxPending, isRevokeConfirmed>>
afterFlowVars == <<revokeVars>>
afterFetchVars == <<flowVars, afterFlowVars>>
afterPostVars == <<fetchVars, afterFetchVars>>
lateVars == <<postVars, afterPostVars>>
appVars == <<mergeVars, listVars, signingVars, codecVars, lateVars>>
coreVars == <<engineVars, storeVars, resolverVars>>
vars == <<aar, sar, publicClient, now, clock, isValid, pc, vpc, resp, log, result,
          db, handler, request, response,
          wallet, sigHex, kpc, bytecode, keyType,
          onchainAssociations, offchainAssociations, pairMap, mpc,
          mergedAssociations,
          sars, chain, wallClock, calls, fpc,
          account, signedAar, signedOn, verifiedOn,
          codecArg, codecMid, codecRet, cpc,
          targetAddress, flights, effectRuns,
          flowStep, writeAar, writeSar, panel, connectedAddress, signing,
          storing, txPending, isConfirmed, readSelection, revokeModeTrigger,
          resets,
          timeNow, isRevoking, revoking, revokeTxPending, isRevokeConfirmed,
          storageProps, sent, spc, postNow, postChain, validationResult,
          accountsTable, associationsTable, postResponse, rebuilt>>

----------------------------------------------------------------------------
(* Bounds *)

\* Timestamps (validAt, validUntil, revokedAt, now) range over 0..MaxTime.
MaxTime == 2

Times == 0..MaxTime

\* Readings of the clock, Math.floor(Date.now() / 1000): positive.
Instants == 1..MaxTime

----------------------------------------------------------------------------
(* Key types: KEY_TYPES of lib/types.ts *)

DELEGATED == 0
K1        == 1
R1        == 2
ERC1271   == 32770
ERC6492   == 32771

\* The key-type tags a record is drawn with: the three verified schemes, the
\* DELEGATED alias and one tag the engine does not verify.
KeyTypes == {DELEGATED, K1, R1, ERC1271, ERC6492}

\* JavaScript undefined / a defined value v.
undefined == <<>>
Some(v) == <<v>>

Parties == {"initiator", "approver"}

----------------------------------------------------------------------------
(* Signatures.  A signature is a hex string, held as the sequence of its   *)
(* characters, together with what the code cannot compute from the string  *)
(* alone: whether plain-key recovery over the record's hash yields the     *)
(* claimed signer, and whether the bytes before the ERC-6492 suffix        *)
(* ABI-decode as (address, bytes, bytes).                                  *)

\* s repeated n times.
RECURSIVE Repeat(_, _)
Repeat(s, n) == IF n = 0 THEN <<>> ELSE s \o Repeat(s, n - 1)

\* ERC6492_MAGIC_SUFFIX = '0x6492...6492': '0x' and 32 bytes 0x64 0x92.
ERC6492_MAGIC_SUFFIX == <<"0", "x">> \o Repeat(<<"6", "4", "9", "2">>, 16)

\* '0x' followed by the given hex digits.
Hex(digits) == <<"0", "x">> \o digits

\* 32 bytes that differ from the magic suffix in the last digit only.
NearMagic == Repeat(<<"6", "4", "9", "2">>, 15) \o <<"6", "4", "9", "3">>

\* String.prototype.toLowerCase, on one character.
lowerChar(c) ==
    CASE c = "A" -> "a" [] c = "B" -> "b" [] c = "C" -> "c"
      [] c = "D" -> "d" [] c = "E" -> "e" [] c = "F" -> "f"
      [] c = "X" -> "x" [] OTHER -> c

\* String.prototype.toLowerCase, on a string.
hexToLowerCase(s) == [i \in 1..Len(s) |-> lowerChar(s[i])]

\* String.prototype.slice(-n): the last n characters (all, when shorter).
sliceLast(s, n) == IF Len(s) <= n THEN s ELSE SubSeq(s, Len(s) - n + 1, Len(s))

\* A variant whose length guard is off by one byte.
isErc6492Signature_lengthOffByOne(signature) ==
    IF Len(signature) < 68 THEN FALSE
    ELSE hexToLowerCase(Hex(sliceLast(signature, 64)))
            = hexToLowerCase(ERC6492_MAGIC_SUFFIX)

\* isErc6492Signature:
\*   if (signature.length < 66) return false
\*   const suffix = signature.slice(-64)
\*   return `0x${suffix}`.toLowerCase() === ERC6492_MAGIC_SUFFIX.toLowerCase()
isErc6492Signature(signature) ==
    IF Len(signature) < 66 THEN FALSE
    ELSE hexToLowerCase(Hex(sliceLast(signature, 64)))
            = hexToLowerCase(ERC6492_MAGIC_SUFFIX)

\* The signatures a record is drawn with.  The two digits before the suffix
\* of WrappedSig stand for the ABI-encoded (factory, calldata, signature).
EmptySig       == [hex |-> Hex(<<>>), k1 |-> FALSE, decodes |-> FALSE]
PlainGoodSig   == [hex |-> Hex(<<"1", "b">>), k1 |-> TRUE,  decodes |-> FALSE]
PlainBadSig    == [hex |-> Hex(NearMagic), k1 |-> FALSE, decodes |-> FALSE]
WrappedSig     == [hex |-> Hex(<<"a", "b">>) \o Tail(Tail(ERC6492_MAGIC_SUFFIX)),
                   k1 |-> FALSE, decodes |-> TRUE]
MalformedWrap  == [hex |-> ERC6492_MAGIC_SUFFIX, k1 |-> FALSE, decodes |-> FALSE]

Signatures == {EmptySig, PlainGoodSig, PlainBadSig, WrappedSig, MalformedWrap}

\* A variant that verifies every signature, the empty one included.
populated_always(sig) == TRUE

\* sar.xSignature && sar.xSignature !== '0x'
populated(sig) == sig.hex # <<>> /\ sig.hex # Hex(<<>>)

\* A variant that takes every wrapper as well-formed.
unwrapErc6492Signature_neverNull(sig) == TRUE

\* unwrapErc6492Signature(sig) # null: the signature is wrapper-tagged and
\* decodeAbiParameters does not throw on the bytes before the suffix.
unwrapErc6492Signature(sig) == isErc6492Signature(sig.hex) /\ sig.decodes

\* viem verifyTypedData: recover the signer from the record hash, compare.
verifyTypedData(sig) == sig.k1

signatureOf(s, p) == IF p = "initiator" THEN s.initiatorSignature ELSE s.approverSignature
keyTypeOf(s, p)   == IF p = "initiator" THEN s.initiatorKeyType ELSE s.approverKeyType

----------------------------------------------------------------------------
(* Chain answers *)

Unasked == "unasked"

\* client.getCode: bytecode, no bytecode, or the query rejects.
CodeAnswers == {"code", "none", "fail"}
\* client.readContract(isValidSignature): 0x1626ba7e, another bytes4, or it
\* rejects: the contract reverts, the address has no code (no return data),
\* or the return data does not decode as bytes4.
MagicAnswers == {"magic", "other", "revert", "nocode", "undecodable"}
\* client.call to the universal validator: data decoding to true / false,
\* no data, data that does not decode to a bool, or the call rejects.
CallAnswers == {"true", "false", "nodata", "garbage", "revert"}

NoAnswers == [getCode |-> Unasked, isValidSignature |-> Unasked,
              isValidSig |-> Unasked, innerIsValidSignature |-> Unasked]

\* A variant that takes the empty bytecode '0x' for contract code.
isSmartContract_emptyIsCode(code) == code \in {"code", "none"}

\* isSmartContract: bytecode !== undefined && bytecode !== '0x' && length > 2
isSmartContract(code) == code = "code"

----------------------------------------------------------------------------
(* validateAssociation *)

NoError == <<>>

Valid == [valid |-> TRUE, error |-> NoError]
\* A variant that drops the error of an invalid verdict.
Invalid_noError(err) == [valid |-> FALSE, error |-> NoError]

Invalid(err) == [valid |-> FALSE, error |-> err]

NotYetValid(a, n) == <<"Association not yet valid", a.validAt, n>>
Expired(a, n)     == <<"Association has expired", a.validUntil, n>>
Revoked(s, n)     == <<"Association is revoked", s.revokedAt, n>>
InvalidSignature(p) ==
    IF p = "initiator" THEN <<"Invalid initiator signature">>
                       ELSE <<"Invalid approver signature">>

\* A variant that is off by one second at the lower bound.
notYetValid_offByOne(a, n) == n + 1 < a.validAt

\* now < aar.validAt
notYetValid(a, n) == n < a.validAt

\* A variant that takes validUntil as an inclusive bound.
expired_inclusive(a, n) == a.validUntil # 0 /\ n > a.validUntil

\* aar.validUntil !== 0n && now >= aar.validUntil
expired(a, n) == a.validUntil # 0 /\ n >= a.validUntil

\* A variant that reads the clock again for the third check.
revoked_liveClock(s, n) == s.revokedAt # 0 /\ clock >= s.revokedAt

\* A variant that takes revokedAt as an inclusive bound.
revoked_inclusive(s, n) == s.revokedAt # 0 /\ n > s.revokedAt

\* A variant that rejects a record as soon as a revocation is recorded.
revoked_anyRevocation(s, n) == s.revokedAt # 0

\* sar.revokedAt !== 0n && now >= sar.revokedAt
revoked(s, n) == s.revokedAt # 0 /\ n >= s.revokedAt

\* The party whose signature the call is at.
party == IF pc = "initiator" THEN "initiator" ELSE "approver"

\* return v
Return(v) ==
    /\ pc' = "returned"
    /\ vpc' = "none"
    /\ result' = v

\* The check of party p's signature is over with outcome `ok`: lines 98-104
\* and 117-125.
Checked(p, ok) ==
    IF ~ok THEN Return(Invalid(InvalidSignature(p)))
    ELSE IF p = "initiator"
         THEN /\ pc' = "approver"
              /\ vpc' = "none"
              /\ UNCHANGED result
         ELSE Return(Valid)

\* A variant without the early return after a bad initiator signature.
Verified_noEarlyReturn(p, ok) ==
    /\ isValid' = [isValid EXCEPT ![p] = Some(ok)]
    /\ IF p = "initiator"
       THEN /\ pc' = "approver"
            /\ vpc' = "none"
            /\ UNCHANGED result
       ELSE IF ok THEN Return(Valid) ELSE Return(Invalid(InvalidSignature(p)))

\* verifySignature for party p has returned `ok`: isInitiatorValid /
\* isApproverValid, lines 89 and 108, and the test that follows.
Verified(p, ok) ==
    /\ isValid' = [isValid EXCEPT ![p] = Some(ok)]
    /\ Checked(p, ok)

\* The promise of verifySignature rejects: nothing in validateAssociation
\* catches, the call throws.
Throw ==
    /\ pc' = "threw"
    /\ vpc' = "none"
    /\ UNCHANGED <<result, isValid>>

\* 1. Current timestamp MUST be >= validAt
CheckValidAt ==
    /\ pc = "validAt"
    /\ log' = Append(log, <<"check", "validAt">>)
    /\ IF notYetValid(aar, now)
       THEN Return(Invalid(NotYetValid(aar, now)))
       ELSE pc' = "validUntil" /\ UNCHANGED <<vpc, result>>
    /\ UNCHANGED isValid
    /\ UNCHANGED <<aar, sar, publicClient, now, clock, resp>>
    /\ UNCHANGED storeVars
    /\ UNCHANGED resolverVars
    /\ UNCHANGED appVars

\* 2. If validUntil is nonzero, current timestamp MUST be < validUntil
CheckValidUntil ==
    /\ pc = "validUntil"
    /\ log' = Append(log, <<"check", "validUntil">>)
    /\ IF expired(aar, now)
       THEN Return(Invalid(Expired(aar, now)))
       ELSE pc' = "revokedAt" /\ UNCHANGED <<vpc, result>>
    /\ UNCHANGED isValid
    /\ UNCHANGED <<aar, sar, publicClient, now, clock, resp>>
    /\ UNCHANGED storeVars
    /\ UNCHANGED resolverVars
    /\ UNCHANGED appVars

\* 3. If revokedAt is nonzero, current timestamp MUST be < revokedAt
CheckRevokedAt ==
    /\ pc = "revokedAt"
    /\ log' = Append(log, <<"check", "revokedAt">>)
    /\ IF revoked(sar, now)
       THEN Return(Invalid(Revoked(sar, now)))
       ELSE pc' = "initiator" /\ UNCHANGED <<vpc, result>>
    /\ UNCHANGED isValid
    /\ UNCHANGED <<aar, sar, publicClient, now, clock, resp>>
    /\ UNCHANGED storeVars
    /\ UNCHANGED resolverVars
    /\ UNCHANGED appVars

\* A variant that goes on to the chain verifiers without a client.
clientMissing_never(client) == FALSE

\* !publicClient
clientMissing(client) == ~client

\* A variant that leaves DELEGATED to the unsupported key types.
plainKey_k1Only(kt) == kt = K1

\* keyType === KEY_TYPES.K1 || keyType === KEY_TYPES.DELEGATED
plainKey(kt) == kt = K1 \/ kt = DELEGATED

\* 4./5. Validate the party's signature (if populated): the call of
\* verifySignature and its dispatch on the key type, up to the first await.
VerifySignature ==
    /\ pc \in Parties
    /\ vpc = "none"
    /\ LET p   == party
           sig == signatureOf(sar, p)
           kt  == keyTypeOf(sar, p)
       IN IF ~populated(sig)
          THEN /\ Checked(p, TRUE)
               /\ UNCHANGED <<log, isValid>>
          ELSE /\ log' = Append(log, <<"verifySignature", p, kt>>)
               /\ IF kt = ERC6492
                  THEN IF clientMissing(publicClient)
                       THEN Verified(p, FALSE)
                       ELSE vpc' = "getCode" /\ UNCHANGED <<pc, result, isValid>>
                  ELSE IF kt = ERC1271
                  THEN IF clientMissing(publicClient)
                       THEN Verified(p, FALSE)
                       ELSE vpc' = "isValidSignature" /\ UNCHANGED <<pc, result, isValid>>
                  ELSE IF plainKey(kt)
                  THEN Verified(p, verifyTypedData(sig))
                  ELSE Verified(p, FALSE)
    /\ UNCHANGED <<aar, sar, publicClient, now, clock, resp>>
    /\ UNCHANGED storeVars
    /\ UNCHANGED resolverVars
    /\ UNCHANGED appVars

\* The answers of party p with one more query answered.
Answered(p, query, answer) == [resp EXCEPT ![p][query] = answer]

\* A variant that always goes through the universal validator.
regularErc1271_never(isDeployed, signature) == FALSE

\* isDeployed && !isErc6492Signature(signature)
regularErc1271(isDeployed, signature) ==
    isDeployed /\ ~isErc6492Signature(signature)

\* verifyErc6492Signature, lines 140-146: `await isSmartContract(client,
\* signerAddress)` stands outside the function's try block.
GetCode ==
    /\ pc \in Parties
    /\ vpc = "getCode"
    /\ LET p   == party
           sig == signatureOf(sar, p)
       IN \E c \in CodeAnswers :
            /\ resp' = Answered(p, "getCode", c)
            /\ log' = Append(log, <<"getCode", p>>)
            /\ IF c = "fail"
               THEN Throw
               ELSE /\ vpc' = IF regularErc1271(isSmartContract(c), sig.hex)
                              THEN "isValidSignature"
                              ELSE "isValidSig"
                    /\ UNCHANGED <<pc, result, isValid>>
    /\ UNCHANGED <<aar, sar, publicClient, now, clock>>
    /\ UNCHANGED storeVars
    /\ UNCHANGED resolverVars
    /\ UNCHANGED appVars

\* client.call resolved and its data, if any, decoded as a bool: the try
\* block of lines 150-179 ran to one of its two returns.
returned(r) == r \in {"true", "false", "nodata"}

\* A variant that takes a call without return data as a success.
decoded_noDataValid(r) == r \in {"true", "nodata"}

\* if (result?.data) return decodeAbiParameters([bool], data)[0]; return false
decoded(r) == r = "true"

\* verifyErc6492Signature, lines 148-190: the eth_call to the universal
\* validator, the decoding of its answer, and the catch block.
UniversalValidatorCall ==
    /\ pc \in Parties
    /\ vpc = "isValidSig"
    /\ LET p          == party
           sig        == signatureOf(sar, p)
           isDeployed == isSmartContract(resp[p].getCode)
       IN \E r \in CallAnswers :
            /\ resp' = Answered(p, "isValidSig", r)
            /\ log' = Append(log, <<"call", p>>)
            /\ IF returned(r)
               THEN Verified(p, decoded(r))
               ELSE IF isErc6492Signature(sig.hex)
                    THEN IF unwrapErc6492Signature(sig) /\ isDeployed
                         THEN vpc' = "innerIsValidSignature"
                              /\ UNCHANGED <<pc, result, isValid>>
                         ELSE Verified(p, FALSE)
                    ELSE Verified(p, FALSE)
    /\ UNCHANGED <<aar, sar, publicClient, now, clock>>
    /\ UNCHANGED storeVars
    /\ UNCHANGED resolverVars
    /\ UNCHANGED appVars

\* A variant that accepts whatever bytes4 the contract returns.
isMagicValue_anyValue(r) == r \in {"magic", "other"}

\* result === ERC1271_MAGIC_VALUE, and false from the catch block when
\* readContract rejects.
isMagicValue(r) == r = "magic"

\* verifyErc1271Signature: readContract isValidSignature(hash, signature) on
\* the signer, inside try/catch.  `query` tells the signature passed: the
\* record's own ("isValidSignature") or the unwrapped inner one
\* ("innerIsValidSignature").
verifyErc1271Signature(query) ==
    /\ pc \in Parties
    /\ vpc = query
    /\ LET p == party
       IN \E r \in MagicAnswers :
            /\ resp' = Answered(p, query, r)
            /\ log' = Append(log, <<"readContract", p, query>>)
            /\ Verified(p, isMagicValue(r))
    /\ UNCHANGED <<aar, sar, publicClient, now, clock>>
    /\ UNCHANGED storeVars
    /\ UNCHANGED resolverVars
    /\ UNCHANGED appVars

\* The wall clock moves on by a second while the call is under way.
Tick ==
    /\ pc \notin {"idle", "returned", "threw"}
    /\ clock < MaxTime
    /\ clock' = clock + 1
    /\ UNCHANGED <<aar, sar, publicClient, now, isValid, pc, vpc, resp, log, result>>
    /\ UNCHANGED storeVars
    /\ UNCHANGED resolverVars
    /\ UNCHANGED appVars

EngineInit ==
    /\ aar \in [validAt : Times, validUntil : Times]
    /\ sar \in [revokedAt : Times,
                initiatorKeyType : KeyTypes, approverKeyType : KeyTypes,
                initiatorSignature : Signatures, approverSignature : Signatures]
    /\ publicClient \in BOOLEAN
    /\ clock \in Instants
    /\ now = clock
    /\ isValid = [p \in Parties |-> undefined]
    /\ pc = "validAt"
    /\ vpc = "none"
    /\ resp = [p \in Parties |-> NoAnswers]
    /\ log = <<>>
    /\ result = Valid

----------------------------------------------------------------------------
(* The off-chain store: PATCH /api/associations *)

\* The ids of the rows of the associations table, and the ids a request may
\* name: 0 is a missing id, 3 is no row.
Ids == {1, 2}
RequestIds == {0, 1, 2, 3}

\* Key holders, by their lower-case address.
Accounts == {"0xaa", "0xbb", "0xcc"}

\* The spellings of an address a request may carry as `signer`; '' is a
\* missing field.
Signers == {"", "0xaa", "0xAA", "0xbb", "0xcc"}

\* String.prototype.toLowerCase on those spellings.
toLowerCase(a) == IF a = "0xAA" THEN "0xaa" ELSE a

\* SQL NULL; a stored bigint t is Some(t).
NULL == <<>>

\* `Revoke association ${id} at timestamp ${timestamp}`
RevokeMessage(id, t) == <<"Revoke association", id, "at timestamp", t>>

NoMessage == <<>>
RevokeMessages == {RevokeMessage(i, t) : i \in Ids, t \in Times}
Messages == {NoMessage, <<"Hello">>} \cup RevokeMessages

\* A personal_sign signature: who signed, and over what message.
NoSignature == [by |-> "", over |-> NoMessage]
MessageSignatures == {NoSignature} \cup [by : Accounts, over : RevokeMessages]

Requests ==
    [id : RequestIds,
     revokedAt : {undefined} \cup {Some(t) : t \in Times},
     message : Messages,
     signature : MessageSignatures,
     signer : Signers]

\* viem verifyMessage({address, message, signature}): the address recovered
\* from the signature over the message equals `address`, compared as addresses
\* (case-insensitively).
verifyMessage(address, message, signature) ==
    /\ signature.by = toLowerCase(address)
    /\ signature.over = message

\* A variant that admits any authenticated signer.
isParty_anySigner(signerLower, association) == TRUE

\* !(signerLower !== association.initiator_address &&
\*   signerLower !== association.approver_address)
isParty(signerLower, association) ==
    \/ signerLower = association.initiator_address
    \/ signerLower = association.approver_address

\* revokedAt ?? Math.floor(Date.now() / 1000)
expectedTimestamp(revokedAt, dateNow) ==
    IF revokedAt = undefined THEN dateNow ELSE revokedAt[1]

\* UPDATE associations SET revoked_at = t
\*   WHERE id = id AND (revoked_at IS NULL OR revoked_at > t)
update(table, id, t) ==
    [table EXCEPT ![id].revoked_at =
        IF @ = NULL \/ @[1] > t THEN Some(t) ELSE @]

NoRequest == [id |-> 0, revokedAt |-> undefined, message |-> NoMessage,
              signature |-> NoSignature, signer |-> ""]
NoResponse == [status |-> 0, success |-> FALSE, error |-> "", revokedAt |-> undefined]
Failure(status, error) ==
    [status |-> status, success |-> FALSE, error |-> error, revokedAt |-> undefined]
Success(t) ==
    [status |-> 200, success |-> TRUE, error |-> "", revokedAt |-> Some(t)]

\* A client sends a PATCH request.
ReceivePATCH ==
    /\ handler = "idle"
    /\ handler' = "handling"
    /\ \E req \in Requests : request' = req
    /\ UNCHANGED <<db, response>>
    /\ UNCHANGED engineVars
    /\ UNCHANGED resolverVars
    /\ UNCHANGED appVars

\* export async function PATCH(request).  dateNow is the server's clock;
\* sqlUp is FALSE when the database query rejects, which the handler's catch
\* turns into a 500 response.
PATCH ==
    /\ handler = "handling"
    /\ handler' = "responded"
    /\ \E dateNow \in Instants, sqlUp \in BOOLEAN :
        LET id          == request.id
            signerLower == toLowerCase(request.signer)
            t           == expectedTimestamp(request.revokedAt, dateNow)
        IN IF id = 0
           THEN response' = Failure(400, "Missing id") /\ UNCHANGED db
           ELSE IF \/ request.message = NoMessage
                   \/ request.signature = NoSignature
                   \/ request.signer = ""
           THEN response' = Failure(400, "Missing authentication fields")
                /\ UNCHANGED db
           ELSE IF ~verifyMessage(request.signer, request.message, request.signature)
           THEN response' = Failure(401, "Invalid signature") /\ UNCHANGED db
           ELSE IF ~sqlUp
           THEN response' = Failure(500, "Unknown error") /\ UNCHANGED db
           ELSE IF id \notin DOMAIN db
           THEN response' = Failure(404, "Association not found") /\ UNCHANGED db
           ELSE IF ~isParty(signerLower, db[id])
           THEN response' = Failure(403, "Signer is not a party to this association")
                /\ UNCHANGED db
           ELSE IF request.message # RevokeMessage(id, t)
           THEN response' = Failure(400, "Message format mismatch") /\ UNCHANGED db
           ELSE /\ db' = update(db, id, t)
                /\ response' = Success(t)
    /\ UNCHANGED request
    /\ UNCHANGED engineVars
    /\ UNCHANGED resolverVars
    /\ UNCHANGED appVars

\* The response has been delivered; the handler is free for the next request.
Respond ==
    /\ handler = "responded"
    /\ handler' = "idle"
    /\ request' = NoRequest
    /\ response' = NoResponse
    /\ UNCHANGED db
    /\ UNCHANGED engineVars
    /\ UNCHANGED resolverVars
    /\ UNCHANGED appVars

StoreIdle ==
    /\ db = <<>>
    /\ handler = "idle"
    /\ request = NoRequest
    /\ response = NoResponse

EngineIdle ==
    /\ aar = [validAt |-> 0, validUntil |-> 0]
    /\ sar = [revokedAt |-> 0,
              initiatorKeyType |-> DELEGATED, approverKeyType |-> DELEGATED,
              initiatorSignature |-> EmptySig, approverSignature |-> EmptySig]
    /\ publicClient = FALSE
    /\ now = 0
    /\ clock = 0
    /\ isValid = [p \in Parties |-> undefined]
    /\ pc = "idle"
    /\ vpc = "none"
    /\ resp = [p \in Parties |-> NoAnswers]
    /\ log = <<>>
    /\ result = Valid

\* The table after two associations were stored unrevoked: one between 0xaa
\* and 0xbb, one between 0xcc and 0xaa (addresses as extractAddress yields
\* them, lower-case).
StoreInit ==
    /\ db = <<[initiator_address |-> "0xaa", approver_address |-> "0xbb",
               revoked_at |-> NULL],
              [initiator_address |-> "0xcc", approver_address |-> "0xaa",
               revoked_at |-> NULL]>>
    /\ handler = "idle"
    /\ request = NoRequest
    /\ response = NoResponse

----------------------------------------------------------------------------
(* The key-type resolver: getKeyTypeForSignature of useAssociationSigning  *)

\* The hex strings a wallet may hand back: a few leading bytes followed by
\* the magic suffix, a near miss of it, a truncated suffix, or nothing.
Prefixes == {<<>>, <<"a", "b">>, <<"A", "B">>, <<"6", "4", "9", "2">>}
Tails ==
    {Tail(Tail(ERC6492_MAGIC_SUFFIX)),
     NearMagic,
     <<"f", "F">> \o Repeat(<<"6", "4", "9", "2">>, 15) \o <<"6", "4">>,
     Repeat(<<"6", "4", "9", "2">>, 15) \o <<"6", "4">>,
     <<"1", "b">>,
     <<>>}
HexSignatures == {Hex(pre \o tail) : pre \in Prefixes, tail \in Tails}

\* The hook's closure: `address` of useAccount and `publicClient` of
\* usePublicClient, either of which may be undefined; `deployed` tells
\* whether the chain holds contract code at the signer's address.
Wallets ==
    {w \in [address : {undefined, Some("0xaa")}, publicClient : BOOLEAN,
            deployed : BOOLEAN] :
        w.address = undefined => ~w.deployed}

\* return keyType
ReturnKeyType(kt) ==
    /\ kpc' = "returned"
    /\ keyType' = Some(kt)

\* getKeyTypeForSignature, up to its await: the test for the magic suffix and
\* the guard of the code query.
getKeyTypeForSignature ==
    /\ kpc = "start"
    /\ IF sigHex # undefined /\ isErc6492Signature(sigHex)
       THEN ReturnKeyType(ERC6492)
       ELSE IF wallet.address # undefined /\ wallet.publicClient
       THEN kpc' = "getCode" /\ UNCHANGED keyType
       ELSE ReturnKeyType(K1)
    /\ UNCHANGED <<wallet, sigHex, bytecode>>
    /\ UNCHANGED engineVars
    /\ UNCHANGED storeVars
    /\ UNCHANGED appVars

\* A variant without the try block around the code query: a rejection
\* leaves the resolver by an exception.
ResolveCode_uncaught ==
    /\ kpc = "getCode"
    /\ \E c \in {"fail", IF wallet.deployed THEN "code" ELSE "none"} :
        /\ bytecode' = c
        /\ IF c = "fail"
           THEN kpc' = "threw" /\ UNCHANGED keyType
           ELSE IF isSmartContract(c)
           THEN ReturnKeyType(ERC1271)
           ELSE ReturnKeyType(K1)
    /\ UNCHANGED <<wallet, sigHex>>
    /\ UNCHANGED engineVars
    /\ UNCHANGED storeVars
    /\ UNCHANGED appVars

\* await isSmartContract(publicClient, address) inside try/catch: a
\* rejection is ignored and falls through to K1.
ResolveCode ==
    /\ kpc = "getCode"
    /\ \E c \in {"fail", IF wallet.deployed THEN "code" ELSE "none"} :
        /\ bytecode' = c
        /\ IF c # "fail" /\ isSmartContract(c)
           THEN ReturnKeyType(ERC1271)
           ELSE ReturnKeyType(K1)
    /\ UNCHANGED <<wallet, sigHex>>
    /\ UNCHANGED engineVars
    /\ UNCHANGED storeVars
    /\ UNCHANGED appVars

ResolverIdle ==
    /\ wallet = [address |-> undefined, publicClient |-> FALSE, deployed |-> FALSE]
    /\ sigHex = undefined
    /\ kpc = "idle"
    /\ bytecode = Unasked
    /\ keyType = undefined

ResolverInit ==
    /\ wallet \in Wallets
    /\ sigHex \in {undefined} \cup HexSignatures
    /\ kpc = "start"
    /\ bytecode = Unasked
    /\ keyType = undefined

----------------------------------------------------------------------------
(* The reconciliation layer: mergedAssociations of AssociationsGraph       *)

\* The longest list either source delivers.
MaxList == 2

\* Account addresses as 0x-prefixed hex strings, in the spellings the two
\* sources deliver: extractAddress yields lower case, a database row may hold
\* either case.
AddrA == Hex(Repeat(<<"a">>, 40))
AddrB == Hex(Repeat(<<"b">>, 40))
AddrC == Hex(Repeat(<<"c">>, 40))
UpperA == Hex(Repeat(<<"A">>, 40))
UpperB == Hex(Repeat(<<"B">>, 40))

\* The (initiator, approver) pairs of the records of each source.
OnchainPairs == {<<AddrA, AddrB>>, <<AddrB, AddrA>>, <<AddrA, AddrC>>}
OffchainPairs ==
    {<<AddrA, AddrB>>, <<UpperB, UpperA>>, <<AddrA, AddrC>>, <<AddrB, AddrC>>}

\* The lists of at most MaxList pairs.
ListsOf(S) == UNION {[1..n -> S] : n \in 0..MaxList}

\* The FullAssociation built for the record at index i of a source: its id
\* (`onchain-${index}`, `db-${id}`), the two addresses and the source tag.
FullAssociation(source, i, pair) ==
    [id |-> <<source, i>>, initiator |-> pair[1], approver |-> pair[2],
     source |-> source]

\* The UTF-16 code unit of a character of a lower-cased address or of a key.
codeUnit(c) ==
    CASE c = "-" -> 45
      [] c = "0" -> 48 [] c = "1" -> 49 [] c = "2" -> 50 [] c = "3" -> 51
      [] c = "4" -> 52 [] c = "5" -> 53 [] c = "6" -> 54 [] c = "7" -> 55
      [] c = "8" -> 56 [] c = "9" -> 57
      [] c = "a" -> 97 [] c = "b" -> 98 [] c = "c" -> 99 [] c = "d" -> 100
      [] c = "e" -> 101 [] c = "f" -> 102 [] c = "x" -> 120

\* The order Array.prototype.sort() uses without a comparator: strings by
\* their code units.
RECURSIVE before(_, _)
before(s, t) ==
    IF t = <<>> THEN FALSE
    ELSE IF s = <<>> THEN TRUE
    ELSE IF codeUnit(Head(s)) # codeUnit(Head(t))
    THEN codeUnit(Head(s)) < codeUnit(Head(t))
    ELSE before(Tail(s), Tail(t))

\* [a, b].sort()
sort(a, b) == IF before(b, a) THEN <<b, a>> ELSE <<a, b>>

\* [x, y].join('-')
join(pair) == pair[1] \o <<"-">> \o pair[2]

\* [assoc.initiator.toLowerCase(), assoc.approver.toLowerCase()].sort().join('-')
pairKey(assoc) ==
    join(sort(hexToLowerCase(assoc.initiator), hexToLowerCase(assoc.approver)))

\* A variant that finds no key.
has_never(map, key) == FALSE

\* Map.prototype.has
has(map, key) == \E i \in 1..Len(map) : map[i][1] = key

\* Map.prototype.set: the value of a key already present is replaced where
\* it stands, a new key is appended.
set(map, key, value) ==
    IF has(map, key)
    THEN [i \in 1..Len(map) |->
            IF map[i][1] = key THEN <<key, value>> ELSE map[i]]
    ELSE Append(map, <<key, value>>)

\* Array.from(map.values())
values(map) == [i \in 1..Len(map) |-> map[i][2]]

\* One iteration of the first loop: pairMap.set(key, assoc) for the next
\* on-chain entry.
MergeOnchain ==
    /\ mpc[1] = "onchain"
    /\ mpc[2] <= Len(onchainAssociations)
    /\ LET assoc == onchainAssociations[mpc[2]]
       IN pairMap' = set(pairMap, pairKey(assoc), assoc)
    /\ mpc' = <<"onchain", mpc[2] + 1>>
    /\ UNCHANGED <<onchainAssociations, offchainAssociations, mergedAssociations>>
    /\ UNCHANGED coreVars
    /\ UNCHANGED <<listVars, signingVars, codecVars>>
    /\ UNCHANGED lateVars

\* The first loop is exhausted: on to the second.
MergeNextLoop ==
    /\ mpc[1] = "onchain"
    /\ mpc[2] > Len(onchainAssociations)
    /\ mpc' = <<"offchain", 1>>
    /\ UNCHANGED <<onchainAssociations, offchainAssociations, pairMap,
                   mergedAssociations>>
    /\ UNCHANGED coreVars
    /\ UNCHANGED <<listVars, signingVars, codecVars>>
    /\ UNCHANGED lateVars

\* One iteration of the second loop: the next off-chain entry is set only if
\* the map does not have its key.
MergeOffchain ==
    /\ mpc[1] = "offchain"
    /\ mpc[2] <= Len(offchainAssociations)
    /\ LET assoc == offchainAssociations[mpc[2]]
           key == pairKey(assoc)
       IN pairMap' = IF ~has(pairMap, key) THEN set(pairMap, key, assoc)
                     ELSE pairMap
    /\ mpc' = <<"offchain", mpc[2] + 1>>
    /\ UNCHANGED <<onchainAssociations, offchainAssociations, mergedAssociations>>
    /\ UNCHANGED coreVars
    /\ UNCHANGED <<listVars, signingVars, codecVars>>
    /\ UNCHANGED lateVars

\* return Array.from(pairMap.values())
MergeReturn ==
    /\ mpc[1] = "offchain"
    /\ mpc[2] > Len(offchainAssociations)
    /\ mergedAssociations' = values(pairMap)
    /\ mpc' = <<"done", 0>>
    /\ UNCHANGED <<onchainAssociations, offchainAssociations, pairMap>>
    /\ UNCHANGED coreVars
    /\ UNCHANGED <<listVars, signingVars, codecVars>>
    /\ UNCHANGED lateVars

MergeIdle ==
    /\ onchainAssociations = <<>>
    /\ offchainAssociations = <<>>
    /\ pairMap = <<>>
    /\ mpc = <<"idle", 0>>
    /\ mergedAssociations = <<>>

\* The memo is recomputed for the two lists the effects have set.
MergeInit ==
    /\ \E l \in ListsOf(OnchainPairs) :
        onchainAssociations =
            [i \in 1..Len(l) |-> FullAssociation("onchain", i - 1, l[i])]
    /\ \E l \in ListsOf(OffchainPairs) :
        offchainAssociations =
            [i \in 1..Len(l) |-> FullAssociation("offchain", i, l[i])]
    /\ pairMap = <<>>
    /\ mpc = <<"onchain", 1>>
    /\ mergedAssociations = <<>>


----------------------------------------------------------------------------
(* Validation of a source's list: fetchOnchainAssociations of             *)
(* AssociationsGraph, Promise.all over one validateAssociation per record. *)
(* A call runs without interruption up to its next await; the awaited      *)
(* promises of different calls settle in any order.                        *)

\* The positions of the records of the list the source returned.
Indexes == {1, 2}

\* The records of the list: valid from 0, unrevoked, open-ended or ending at
\* 1; the initiator's signature of each kind the verifiers tell apart, the
\* approver's a good plain-key one.
ListedSignatures ==
    {<<K1, PlainGoodSig>>, <<K1, PlainBadSig>>, <<R1, PlainGoodSig>>,
     <<ERC1271, PlainGoodSig>>, <<ERC6492, PlainGoodSig>>, <<ERC6492, WrappedSig>>}
ListedRecords ==
    {[aar |-> [validAt |-> 0, validUntil |-> u],
      sar |-> [revokedAt |-> 0,
               initiatorKeyType |-> s[1], approverKeyType |-> K1,
               initiatorSignature |-> s[2], approverSignature |-> PlainGoodSig]] :
        u \in {0, 1}, s \in ListedSignatures}

\* The state of the chain the client reads, fixed for the duration of the
\* fetch: what getCode answers for the account the list was fetched for, and
\* what the universal validator and the account's isValidSignature answer
\* for the signature of each record.
ChainStates ==
    {ch \in [Indexes -> [getCode : CodeAnswers,
                         isValidSig : {"true", "false", "revert"},
                         isValidSignature : {"magic", "other"}]] :
        \A i, j \in Indexes : ch[i].getCode = ch[j].getCode}

\* The locals of a call that has not begun.
NotStarted == [pc |-> "start", vpc |-> "none", now |-> 0,
               isDeployed |-> FALSE, out |-> undefined]

\* return v / the promise of the call rejects / the call awaits query q while
\* verifying party p.
Finish(c, v) == [c EXCEPT !.pc = "returned", !.vpc = "none", !.out = Some(v)]
Raise(c) == [c EXCEPT !.pc = "threw", !.vpc = "none"]
Await(c, p, q) == [c EXCEPT !.pc = p, !.vpc = q]

\* The call of index i is handed record 2 whatever i is.
record_shared(i) == sars[2]

\* The record the callback of sars.map is called with at index i.
record(i) == sars[i]

\* Steps 4 and 5 from party p on, up to the next await: an unpopulated
\* signature is skipped, a populated one is dispatched on its key type
\* (verifySignature, the client being supplied).
RECURSIVE Verify(_, _, _)
Verify(c, r, p) ==
    IF p = "done" THEN Finish(c, Valid)
    ELSE LET sig  == signatureOf(r.sar, p)
             kt   == keyTypeOf(r.sar, p)
             next == IF p = "initiator" THEN "approver" ELSE "done"
         IN IF ~populated(sig) THEN Verify(c, r, next)
            ELSE IF kt = ERC6492 THEN Await(c, p, "getCode")
            ELSE IF kt = ERC1271 THEN Await(c, p, "isValidSignature")
            ELSE IF plainKey(kt) THEN Await(c, p, "verifyTypedData")
            ELSE Finish(c, Invalid(InvalidSignature(p)))

\* verifySignature returned `ok` for party c.pc: lines 98-104, 117-125.
Settled(c, r, ok) ==
    IF ~ok THEN Finish(c, Invalid(InvalidSignature(c.pc)))
    ELSE Verify(c, r, IF c.pc = "initiator" THEN "approver" ELSE "done")

\* validateAssociation from its first line up to its first await or return,
\* with the clock reading n.
Start(r, n) ==
    LET c == [NotStarted EXCEPT !.now = n]
    IN IF notYetValid(r.aar, n) THEN Finish(c, Invalid(NotYetValid(r.aar, n)))
       ELSE IF expired(r.aar, n) THEN Finish(c, Invalid(Expired(r.aar, n)))
       ELSE IF revoked(r.sar, n) THEN Finish(c, Invalid(Revoked(r.sar, n)))
       ELSE Verify(c, r, "initiator")

\* The call resumes after the promise it awaits has settled with the answer
\* the chain state `ch` gives, and runs up to its next await or return.
Resumed(c, r, ch) ==
    LET sig == signatureOf(r.sar, c.pc)
    IN CASE c.vpc = "verifyTypedData" -> Settled(c, r, verifyTypedData(sig))
         [] c.vpc = "getCode" ->
              IF ch.getCode = "fail" THEN Raise(c)
              ELSE LET d == [c EXCEPT !.isDeployed = isSmartContract(ch.getCode)]
                   IN IF regularErc1271(d.isDeployed, sig.hex)
                      THEN Await(d, c.pc, "isValidSignature")
                      ELSE Await(d, c.pc, "isValidSig")
         [] c.vpc = "isValidSig" ->
              IF returned(ch.isValidSig) THEN Settled(c, r, decoded(ch.isValidSig))
              ELSE IF isErc6492Signature(sig.hex)
                      /\ unwrapErc6492Signature(sig) /\ c.isDeployed
                   THEN Await(c, c.pc, "innerIsValidSignature")
                   ELSE Settled(c, r, FALSE)
         [] c.vpc \in {"isValidSignature", "innerIsValidSignature"} ->
              Settled(c, r, isMagicValue(ch.isValidSignature))

\* The entry built from the verdict v of the record at position i.
Listed(i, r, v) ==
    [id |-> <<"onchain", i - 1>>, source |-> "onchain",
     isValid |-> v.valid, invalidReason |-> v.error, sar |-> r.sar]

\* sars.map(async (sar, index) => ...): every call is begun, in order, and
\* runs to its first await.
MapCalls ==
    /\ fpc = "map"
    /\ calls' = [i \in Indexes |-> Start(record(i), wallClock)]
    /\ fpc' = "all"
    /\ UNCHANGED <<sars, chain, wallClock, onchainAssociations>>
    /\ UNCHANGED <<offchainAssociations, pairMap, mpc, mergedAssociations>>
    /\ UNCHANGED coreVars
    /\ UNCHANGED <<signingVars, codecVars>>
    /\ UNCHANGED lateVars

\* A promise awaited by the call of index i settles.
Resume(i) ==
    /\ fpc # "map"
    /\ calls[i].vpc # "none"
    /\ calls' = [calls EXCEPT ![i] = Resumed(calls[i], record(i), chain[i])]
    /\ UNCHANGED <<sars, chain, wallClock, fpc, onchainAssociations>>
    /\ UNCHANGED <<offchainAssociations, pairMap, mpc, mergedAssociations>>
    /\ UNCHANGED coreVars
    /\ UNCHANGED <<signingVars, codecVars>>
    /\ UNCHANGED lateVars

\* Promise.all resolves once every call has returned:
\* setOnchainAssociations(associations).
PromiseAllResolves ==
    /\ fpc = "all"
    /\ \A i \in Indexes : calls[i].pc = "returned"
    /\ onchainAssociations' =
        [i \in Indexes |-> Listed(i, record(i), calls[i].out[1])]
    /\ fpc' = "set"
    /\ UNCHANGED <<sars, chain, wallClock, calls>>
    /\ UNCHANGED <<offchainAssociations, pairMap, mpc, mergedAssociations>>
    /\ UNCHANGED coreVars
    /\ UNCHANGED <<signingVars, codecVars>>
    /\ UNCHANGED lateVars

\* Promise.all rejects as soon as one call has thrown: the catch block logs
\* the error and the list is left as it was.
PromiseAllRejects ==
    /\ fpc = "all"
    /\ \E i \in Indexes : calls[i].pc = "threw"
    /\ fpc' = "caught"
    /\ UNCHANGED <<sars, chain, wallClock, calls, onchainAssociations>>
    /\ UNCHANGED <<offchainAssociations, pairMap, mpc, mergedAssociations>>
    /\ UNCHANGED coreVars
    /\ UNCHANGED <<signingVars, codecVars>>
    /\ UNCHANGED lateVars

ListIdle ==
    /\ sars = <<>>
    /\ chain = <<>>
    /\ wallClock = 0
    /\ calls = <<>>
    /\ fpc = "idle"

ListInit ==
    /\ sars \in [Indexes -> ListedRecords]
    /\ chain \in ChainStates
    /\ wallClock \in Instants
    /\ calls = [i \in Indexes |-> NotStarted]
    /\ fpc = "map"

----------------------------------------------------------------------------
(* Signing and verifying across chains: the typed data of                  *)
(* useAssociationSigning and the hash of the verifiers.                    *)

\* The chains a wallet may be connected to and a client may read.
Chains == {"baseSepolia", "mainnet"}

\* EIP712_DOMAIN of lib/eip712.ts.
EIP712_DOMAIN == [name |-> "AssociatedAccounts", version |-> "1"]

\* A variant that binds the signature to the chain the wallet is on.
signingDomain_withChainId(chainId) ==
    [name |-> "AssociatedAccounts", version |-> "1", chainId |-> chainId]

\* The domain of the typed data handed to a wallet connected to chainId: the
\* hook knows the chain id (getSigningChainId, chain?.id) and puts it
\* nowhere in the request.
signingDomain(chainId) == EIP712_DOMAIN

\* The message of the typed data, built field by field from the AAR.
eip712Message(a) == [validAt |-> a.validAt, validUntil |-> a.validUntil]

\* viem hashTypedData: equal hashes come from equal domains and messages.
hashTypedData(domain, message) == <<domain, message>>

\* The accounts that sign: an externally owned account, which signs with its
\* own key, and a smart-contract wallet owned by that key, with code on any
\* set of chains.
SigningAccounts ==
    {[address |-> "0xaa", key |-> "0xaa", codeOn |-> {}]}
    \cup {[address |-> "0xcc", key |-> "0xaa", codeOn |-> S] : S \in SUBSET Chains}

\* The signature of a hash under a key; the address recovered from a
\* signature and a hash is the key's only for the hash that was signed.
signHash(key, hash) == [by |-> key, over |-> hash]
recoverAddress(hash, signature) ==
    IF signature.over = hash THEN signature.by ELSE "0x00"

\* The key type the hook stores with the signature: getKeyTypeForSignature
\* reads the code through its Base Sepolia client, whatever chain the wallet
\* is on (the signature carries no wrapper here).
resolvedKeyType(acct) ==
    IF isSmartContract(IF "baseSepolia" \in acct.codeOn THEN "code" ELSE "none")
    THEN ERC1271 ELSE K1

\* verifySignature for the signer's address through a client of chain v: the
\* hash is computed under EIP712_DOMAIN on every path; a plain key is
\* recovered and compared, a contract is asked on chain v, where an address
\* without code gives no answer and the wallet accepts its owner's
\* signature of the hash.
verifyOn(v, acct, a, signature) ==
    LET hash == hashTypedData(EIP712_DOMAIN, eip712Message(a))
    IN IF plainKey(resolvedKeyType(acct))
       THEN recoverAddress(hash, signature) = acct.address
       ELSE isMagicValue(IF v \notin acct.codeOn THEN "nocode"
                         ELSE IF recoverAddress(hash, signature) = acct.key
                         THEN "magic" ELSE "other")

\* handleSignInitiator / handleSignApprover with the wallet connected to
\* chain c: the wallet signs the hash of the typed data it is handed.
SignOn(c) ==
    /\ signedOn[c] = undefined
    /\ signedOn' = [signedOn EXCEPT ![c] =
            Some(signHash(account.key,
                          hashTypedData(signingDomain(c), eip712Message(signedAar))))]
    /\ UNCHANGED <<account, signedAar, verifiedOn>>
    /\ UNCHANGED coreVars
    /\ UNCHANGED <<mergeVars, listVars, codecVars>>
    /\ UNCHANGED lateVars

\* The signature made on chain c is verified through a client of chain v.
VerifyOn(c, v) ==
    /\ signedOn[c] # undefined
    /\ verifiedOn[<<c, v>>] = undefined
    /\ verifiedOn' = [verifiedOn EXCEPT ![<<c, v>>] =
            Some(verifyOn(v, account, signedAar, signedOn[c][1]))]
    /\ UNCHANGED <<account, signedAar, signedOn>>
    /\ UNCHANGED coreVars
    /\ UNCHANGED <<mergeVars, listVars, codecVars>>
    /\ UNCHANGED lateVars

SigningIdle ==
    /\ account = [address |-> "0xaa", key |-> "0xaa", codeOn |-> {}]
    /\ signedAar = [validAt |-> 0, validUntil |-> 0]
    /\ signedOn = <<>>
    /\ verifiedOn = <<>>

SigningInit ==
    /\ account \in SigningAccounts
    /\ signedAar \in [validAt : Times, validUntil : Times]
    /\ signedOn = [c \in Chains |-> undefined]
    /\ verifiedOn = [x \in Chains \X Chains |-> undefined]

----------------------------------------------------------------------------
(* The address codec (extractAddress, addressToErc7930) and the ERC-6492    *)
(* wrapper (wrapErc6492Signature, unwrapErc6492Signature) as functions on   *)
(* hex strings.                                                             *)

\* String.prototype.slice(2): the string without its first two characters.
sliceFrom2(s) == SubSeq(s, 3, Len(s))

\* A variant that takes the first 20 bytes after the '0x'.
extractAddress_leading(erc7930Bytes) ==
    LET hex == sliceFrom2(erc7930Bytes)
    IN IF Len(hex) >= 40
       THEN hexToLowerCase(Hex(SubSeq(hex, 1, 40)))
       ELSE hexToLowerCase(erc7930Bytes)

\* A variant that keeps the case of its input.
extractAddress_cased(erc7930Bytes) ==
    LET hex == sliceFrom2(erc7930Bytes)
    IN IF Len(hex) >= 40 THEN Hex(sliceLast(hex, 40)) ELSE erc7930Bytes

\* extractAddress: '0x' + the last 40 hex characters, lower-cased; an input
\* with fewer than 40 characters after '0x' is returned lower-cased.
extractAddress(erc7930Bytes) ==
    LET hex == sliceFrom2(erc7930Bytes)
    IN IF Len(hex) >= 40
       THEN hexToLowerCase(Hex(sliceLast(hex, 40)))
       ELSE hexToLowerCase(erc7930Bytes)

\* The value of a hex digit; -1 for a character that is none.
digitValue(c) ==
    CASE c = "0" -> 0 [] c = "1" -> 1 [] c = "2" -> 2 [] c = "3" -> 3
      [] c = "4" -> 4 [] c = "5" -> 5 [] c = "6" -> 6 [] c = "7" -> 7
      [] c = "8" -> 8 [] c = "9" -> 9
      [] lowerChar(c) = "a" -> 10 [] lowerChar(c) = "b" -> 11
      [] lowerChar(c) = "c" -> 12 [] lowerChar(c) = "d" -> 13
      [] lowerChar(c) = "e" -> 14 [] lowerChar(c) = "f" -> 15
      [] OTHER -> -1

\* The lower-case hex digit of a value 0..15.
hexDigit(v) ==
    <<"0", "1", "2", "3", "4", "5", "6", "7", "8", "9",
      "a", "b", "c", "d", "e", "f">>[v + 1]

\* viem isHex / hexToBytes and bytesToHex: a hex string is '0x' and an even
\* number of hex digits; a byte is a number 0..255.
isHex(s) ==
    /\ Len(s) >= 2 /\ s[1] = "0" /\ s[2] = "x"
    /\ Len(s) % 2 = 0
    /\ \A i \in 3..Len(s) : digitValue(s[i]) >= 0
hexToBytes(s) ==
    [i \in 1..((Len(s) - 2) \div 2) |->
        16 * digitValue(s[2 * i + 1]) + digitValue(s[2 * i + 2])]
bytesToHex(b) ==
    Hex([i \in 1..(2 * Len(b)) |->
            IF i % 2 = 1 THEN hexDigit(b[(i + 1) \div 2] \div 16)
                         ELSE hexDigit(b[i \div 2] % 16)])

\* viem toHex(chainId) as the library reads it: the big-endian bytes of the
\* number, without leading zero bytes.
RECURSIVE numberToBytes(_)
numberToBytes(n) ==
    IF n < 256 THEN <<n>> ELSE numberToBytes(n \div 256) \o <<n % 256>>

\* addressToErc7930: buildFromPayload of @wonderland/interop-addresses with
\* version 1 and chain type eip155, in the ERC-7930 layout: version (2
\* bytes), chain type (2 bytes, 0x0000 for eip155), the length of the chain
\* reference and the reference, the length of the address and the address.
addressToErc7930(address, chainId) ==
    LET chainReference == numberToBytes(chainId)
        addressBytes == hexToBytes(address)
    IN bytesToHex(<<0, 1>> \o <<0, 0>>
                  \o <<Len(chainReference)>> \o chainReference
                  \o <<Len(addressBytes)>> \o addressBytes)

\* ABI encoding (viem encodeAbiParameters / decodeAbiParameters) in bytes.
\* A word is 32 bytes; lengths and offsets are words holding a number.
zeros(n) == [i \in 1..n |-> 0]
word(n) == zeros(29) \o <<(n \div 65536) % 256, (n \div 256) % 256, n % 256>>
padRight(b) == b \o zeros((32 - (Len(b) % 32)) % 32)

\* The number a word holds; a word with a nonzero byte among its first 29
\* holds a number beyond every length that occurs here, returned as 2^24.
readUint(w) ==
    IF \E i \in 1..29 : w[i] # 0 THEN 16777216
    ELSE 65536 * w[30] + 256 * w[31] + w[32]

\* encodeAbiParameters([address, bytes, bytes], [factory, factoryCalldata,
\* originalSignature]): the address left-padded to a word, the offsets of
\* the two byte strings, then each as its length and its right-padded bytes.
encodeAbiParameters(factory, factoryCalldata, originalSignature) ==
    LET f == hexToBytes(factory)
        c == hexToBytes(factoryCalldata)
        s == hexToBytes(originalSignature)
    IN bytesToHex(zeros(12) \o f
                  \o word(96) \o word(96 + 32 + Len(padRight(c)))
                  \o word(Len(c)) \o padRight(c)
                  \o word(Len(s)) \o padRight(s))

\* The byte string at offset `off` of b can be read: its length word and
\* that many bytes lie within b.
readable(b, off) ==
    /\ off + 32 <= Len(b)
    /\ off + 32 + readUint(SubSeq(b, off + 1, off + 32)) <= Len(b)
bytesAt(b, off) ==
    SubSeq(b, off + 33, off + 32 + readUint(SubSeq(b, off + 1, off + 32)))

\* decodeAbiParameters([address, bytes, bytes], data): the three values, or
\* NULL where viem throws (no hex, too short for the three head words, an
\* offset or a length that points outside the data).  The values are
\* spelled in lower case; viem spells the address with the capitals of its
\* checksum, which leaves its bytes as they are.
decodeAbiParameters(data) ==
    IF ~isHex(data) THEN NULL
    ELSE LET b == hexToBytes(data)
         IN IF Len(b) < 96 THEN NULL
            ELSE LET off1 == readUint(SubSeq(b, 33, 64))
                     off2 == readUint(SubSeq(b, 65, 96))
                 IN IF ~readable(b, off1) \/ ~readable(b, off2) THEN NULL
                    ELSE Some([factory |-> bytesToHex(SubSeq(b, 13, 32)),
                               factoryCalldata |-> bytesToHex(bytesAt(b, off1)),
                               originalSignature |-> bytesToHex(bytesAt(b, off2))])

\* A variant that appends the suffix with its '0x'.
wrapErc6492Signature_prefixedSuffix(factory, factoryCalldata, originalSignature) ==
    encodeAbiParameters(factory, factoryCalldata, originalSignature)
        \o ERC6492_MAGIC_SUFFIX

\* wrapErc6492Signature: `${encoded}${ERC6492_MAGIC_SUFFIX.slice(2)}`
wrapErc6492Signature(factory, factoryCalldata, originalSignature) ==
    encodeAbiParameters(factory, factoryCalldata, originalSignature)
        \o sliceFrom2(ERC6492_MAGIC_SUFFIX)

\* unwrapErc6492Signature on the hex string: null unless the signature
\* carries the suffix; else the three values decoded from the characters
\* between '0x' and the suffix, or null when decoding throws.
unwrapErc6492SignatureHex(signature) ==
    IF ~isErc6492Signature(signature) THEN NULL
    ELSE decodeAbiParameters(Hex(SubSeq(signature, 3, Len(signature) - 64)))

\* The inputs the functions are applied to.  Binary identifiers: an address
\* in lower, upper or mixed case behind an ERC-7930 prefix, one foreign
\* byte or nothing; and strings of fewer than 20 bytes.
AddressDigits ==
    {Repeat(<<"a">>, 40), Repeat(<<"A">>, 40), Repeat(<<"1", "B">>, 20)}
IdPrefixes ==
    {<<>>, <<"F", "f">>,
     <<"0", "0", "0", "1", "0", "0", "0", "0", "0", "1", "0", "1", "1", "4">>,
     <<"0", "0", "0", "1", "0", "0", "0", "0", "0", "3", "0", "1", "4", "a",
       "3", "4", "1", "4">>}
BinaryIds ==
    {Hex(pre \o a) : pre \in IdPrefixes, a \in AddressDigits}
    \cup {Hex(<<>>), Hex(<<"A", "b">>), Hex(Repeat(<<"C", "d">>, 19))}

\* Addresses handed to addressToErc7930 and wrapErc6492Signature: in lower
\* case, in mixed case as a checksum spelling is, and the zero address.
Addresses ==
    {Hex(Repeat(<<"a">>, 40)), Hex(Repeat(<<"1", "B">>, 20)),
     Hex(Repeat(<<"0">>, 40))}

\* Chain ids: mainnet, Base, Base Sepolia.
ChainIds == {1, 8453, 84532}

\* Factory calldata and inner signatures: empty, one byte, a full word, a
\* word and a byte, and bytes that end in the magic suffix themselves.
ByteStrings ==
    {Hex(<<>>), Hex(<<"1", "b">>), Hex(Repeat(<<"a", "B">>, 32)),
     Hex(Repeat(<<"0", "7">>, 33)), Hex(<<"c", "d">>) \o sliceFrom2(ERC6492_MAGIC_SUFFIX)}

\* extractAddress(erc7930Bytes)
ExtractAddress ==
    /\ cpc = "extractAddress"
    /\ codecRet' = Some(extractAddress(codecMid))
    /\ cpc' = "done"
    /\ UNCHANGED <<codecArg, codecMid>>
    /\ UNCHANGED coreVars
    /\ UNCHANGED <<mergeVars, listVars, signingVars>>
    /\ UNCHANGED lateVars

\* addressToErc7930(address, chainId), whose result is then handed to
\* extractAddress.
AddressToErc7930 ==
    /\ cpc = "addressToErc7930"
    /\ codecMid' = addressToErc7930(codecArg.address, codecArg.chainId)
    /\ cpc' = "extractAddress"
    /\ UNCHANGED <<codecArg, codecRet>>
    /\ UNCHANGED coreVars
    /\ UNCHANGED <<mergeVars, listVars, signingVars>>
    /\ UNCHANGED lateVars

\* wrapErc6492Signature(factory, factoryCalldata, originalSignature), whose
\* result is then handed to unwrapErc6492Signature.
WrapErc6492Signature ==
    /\ cpc = "wrapErc6492Signature"
    /\ codecMid' = wrapErc6492Signature(codecArg.factory, codecArg.factoryCalldata,
                                        codecArg.originalSignature)
    /\ cpc' = "unwrapErc6492Signature"
    /\ UNCHANGED <<codecArg, codecRet>>
    /\ UNCHANGED coreVars
    /\ UNCHANGED <<mergeVars, listVars, signingVars>>
    /\ UNCHANGED lateVars

\* unwrapErc6492Signature(signature)
UnwrapErc6492Signature ==
    /\ cpc = "unwrapErc6492Signature"
    /\ codecRet' = Some(unwrapErc6492SignatureHex(codecMid))
    /\ cpc' = "done"
    /\ UNCHANGED <<codecArg, codecMid>>
    /\ UNCHANGED coreVars
    /\ UNCHANGED <<mergeVars, listVars, signingVars>>
    /\ UNCHANGED lateVars

CodecIdle ==
    /\ codecArg = [fn |-> "none"]
    /\ codecMid = <<>>
    /\ codecRet = undefined
    /\ cpc = "idle"

\* One of the functions is about to be applied to an input: extractAddress
\* to a binary identifier, addressToErc7930 to an address and a chain id,
\* wrapErc6492Signature to a factory, calldata and a signature, or
\* unwrapErc6492Signature to a signature a wallet handed back.
CodecInit ==
    /\ codecRet = undefined
    /\ \/ /\ cpc = "extractAddress"
          /\ codecArg \in [fn : {"extractAddress"}, erc7930Bytes : BinaryIds]
          /\ codecMid = codecArg.erc7930Bytes
       \/ /\ cpc = "addressToErc7930"
          /\ codecArg \in [fn : {"addressToErc7930"},
                           address : Addresses,
                           chainId : ChainIds]
          /\ codecMid = <<>>
       \/ /\ cpc = "wrapErc6492Signature"
          /\ codecArg \in [fn : {"wrapErc6492Signature"},
                           factory : Addresses,
                           factoryCalldata : ByteStrings,
                           originalSignature : ByteStrings]
          /\ codecMid = <<>>
       \/ /\ cpc = "unwrapErc6492Signature"
          /\ codecArg \in [fn : {"unwrapErc6492Signature"},
                           signature : HexSignatures]
          /\ codecMid = codecArg.signature

----------------------------------------------------------------------------
(* Storing a new association: handleStoreAssociation of                     *)
(* useAssociationStorage (the contract call) and of useDatabaseStorage (the *)
(* POST request), the POST handler of /api/associations, and the record     *)
(* fetchOffchainAssociations rebuilds from the row the handler inserted.    *)

\* Number.prototype.toString(10) / BigInt.prototype.toString(): the decimal
\* digits of a natural number.
RECURSIVE toString(_)
toString(n) ==
    IF n < 10 THEN <<hexDigit(n)>> ELSE toString(n \div 10) \o <<hexDigit(n % 10)>>

\* BigInt(s) of a string of decimal digits.
RECURSIVE BigInt(_)
BigInt(s) ==
    IF s = <<>> THEN 0
    ELSE 10 * BigInt(SubSeq(s, 1, Len(s) - 1)) + digitValue(s[Len(s)])

\* Number.prototype.toString(16): the hex digits of a natural number.
RECURSIVE toString16(_)
toString16(n) ==
    IF n < 16 THEN <<hexDigit(n)>> ELSE toString16(n \div 16) \o <<hexDigit(n % 16)>>

\* String.prototype.padStart(4, '0')
padStart4(s) == IF Len(s) >= 4 THEN s ELSE Repeat(<<"0">>, 4 - Len(s)) \o s

\* formatKeyType: `0x${keyType.toString(16).padStart(4, '0')}`
formatKeyType(kt) == Hex(padStart4(toString16(kt)))

\* parseInt(s, 16): an optional '0x', then the number the leading hex digits
\* denote.
RECURSIVE parseDigits16(_, _)
parseDigits16(s, acc) ==
    IF s = <<>> \/ digitValue(Head(s)) < 0 THEN acc
    ELSE parseDigits16(Tail(s), 16 * acc + digitValue(Head(s)))
\* A variant that reads the first digit only, and as a decimal one.
parseInt16_firstDigit(s) ==
    IF s # <<>> /\ digitValue(Head(s)) \in 0..9 THEN digitValue(Head(s)) ELSE 0

parseInt16(s) ==
    IF Len(s) >= 2 /\ s[1] = "0" /\ s[2] \in {"x", "X"}
    THEN parseDigits16(sliceFrom2(s), 0)
    ELSE parseDigits16(s, 0)

\* toHex(keyType, { size: 2 }): two bytes, four hex digits.
keyTypeToBytes2(kt) == Hex(padStart4(toString16(kt)))

\* The bits of an integer a JavaScript number holds exactly.
MantissaBits == 53

\* n without its k low bits.
RECURSIVE halve(_, _)
halve(n, k) == IF k = 0 THEN n ELSE halve(n \div 2, k - 1)

\* Number(bigint): the number itself up to 53 bits, beyond that without its
\* low bits.
RECURSIVE Number(_)
Number(n) == IF halve(n, MantissaBits) = 0 THEN n ELSE 2 * Number(n \div 2)

\* The literals of the code for an empty interface id and empty data.
NoInterfaceId == Hex(Repeat(<<"0">>, 8))
NoData == Hex(<<>>)

\* A variant that sends the local revokedAt.
databaseBody_localRevokedAt(a, s) ==
    [aar |-> [initiator |-> a.initiator, approver |-> a.approver,
              validAt |-> toString(a.validAt),
              validUntil |-> toString(a.validUntil),
              interfaceId |-> a.interfaceId, data |-> a.data],
     sar |-> [revokedAt |-> toString(s.revokedAt),
              initiatorKeyType |-> s.initiatorKeyType,
              approverKeyType |-> s.approverKeyType,
              initiatorSignature |-> s.initiatorSignature,
              approverSignature |-> s.approverSignature]]

\* The JSON body useDatabaseStorage.handleStoreAssociation sends.
databaseBody(a, s) ==
    [aar |-> [initiator |-> a.initiator, approver |-> a.approver,
              validAt |-> toString(a.validAt),
              validUntil |-> toString(a.validUntil),
              interfaceId |-> a.interfaceId, data |-> a.data],
     sar |-> [revokedAt |-> <<"0">>,
              initiatorKeyType |-> s.initiatorKeyType,
              approverKeyType |-> s.approverKeyType,
              initiatorSignature |-> s.initiatorSignature,
              approverSignature |-> s.approverSignature]]

\* The body a client of the endpoint other than the hook may send: the
\* record with its own revokedAt.
directBody(a, s) ==
    [databaseBody(a, s) EXCEPT !.sar.revokedAt = toString(s.revokedAt)]

\* contractSar: the struct useAssociationStorage.handleStoreAssociation
\* hands to writeContract.
contractSar(a, s) ==
    [revokedAt |-> 0,
     initiatorKeyType |-> keyTypeToBytes2(s.initiatorKeyType),
     approverKeyType |-> keyTypeToBytes2(s.approverKeyType),
     initiatorSignature |-> s.initiatorSignature,
     approverSignature |-> s.approverSignature,
     record |-> [initiator |-> a.initiator, approver |-> a.approver,
                 validAt |-> Number(a.validAt),
                 validUntil |-> Number(a.validUntil),
                 interfaceId |-> a.interfaceId, data |-> a.data]]

\* The record the POST handler hands to validateAssociation (lines 42-64).
postedRecord(body) ==
    [aar |-> [initiator |-> body.aar.initiator, approver |-> body.aar.approver,
              validAt |-> BigInt(body.aar.validAt),
              validUntil |-> BigInt(body.aar.validUntil),
              interfaceId |-> body.aar.interfaceId, data |-> body.aar.data],
     sar |-> [revokedAt |-> BigInt(body.sar.revokedAt),
              initiatorKeyType |-> body.sar.initiatorKeyType,
              approverKeyType |-> body.sar.approverKeyType,
              initiatorSignature |-> body.sar.initiatorSignature,
              approverSignature |-> body.sar.approverSignature]]

\* A variant in which a client is at hand and the contract's answer counts.
verifySignatureWithoutClient_trusting(r, p) ==
    LET kt == keyTypeOf(r.sar, p)
    IN IF kt = ERC6492 \/ kt = ERC1271 THEN TRUE
       ELSE IF plainKey(kt) THEN verifyTypedData(signatureOf(r.sar, p))
       ELSE FALSE

\* verifySignature when no publicClient is passed: ERC6492 and ERC1271
\* return false, a plain key is recovered, any other key type is false.
verifySignatureWithoutClient(r, p) ==
    LET kt == keyTypeOf(r.sar, p)
    IN IF kt = ERC6492 \/ kt = ERC1271 THEN FALSE
       ELSE IF plainKey(kt) THEN verifyTypedData(signatureOf(r.sar, p))
       ELSE FALSE

\* validateAssociation as the POST handler calls it, without a publicClient,
\* with the clock reading n.
validateWithoutClient(r, n) ==
    IF notYetValid(r.aar, n) THEN Invalid(NotYetValid(r.aar, n))
    ELSE IF expired(r.aar, n) THEN Invalid(Expired(r.aar, n))
    ELSE IF revoked(r.sar, n) THEN Invalid(Revoked(r.sar, n))
    ELSE IF populated(r.sar.initiatorSignature)
            /\ ~verifySignatureWithoutClient(r, "initiator")
         THEN Invalid(InvalidSignature("initiator"))
    ELSE IF populated(r.sar.approverSignature)
            /\ ~verifySignatureWithoutClient(r, "approver")
         THEN Invalid(InvalidSignature("approver"))
    ELSE Valid

\* The row the handler inserts (lines 89-120), with the id the table gives.
insertedRow(body, id) ==
    [id |-> id,
     initiator_address |-> extractAddress(body.aar.initiator),
     approver_address |-> extractAddress(body.aar.approver),
     initiator_bytes |-> body.aar.initiator,
     approver_bytes |-> body.aar.approver,
     valid_at |-> BigInt(body.aar.validAt),
     valid_until |-> IF body.aar.validUntil = <<"0">> THEN NULL
                     ELSE Some(BigInt(body.aar.validUntil)),
     interface_id |-> IF body.aar.interfaceId = NoInterfaceId THEN NULL
                      ELSE Some(body.aar.interfaceId),
     data |-> IF body.aar.data = NoData THEN NULL ELSE Some(body.aar.data),
     revoked_at |-> IF body.sar.revokedAt = <<"0">> THEN NULL
                    ELSE Some(BigInt(body.sar.revokedAt)),
     initiator_key_type |-> formatKeyType(body.sar.initiatorKeyType),
     approver_key_type |-> formatKeyType(body.sar.approverKeyType),
     initiator_signature |-> body.sar.initiatorSignature,
     approver_signature |-> body.sar.approverSignature]

\* The row as GET returns it (DbAssociation): a bigint column comes back as
\* its decimal string, NULL as null.
dbAssociation(row) ==
    [row EXCEPT !.valid_at = toString(row.valid_at),
                !.valid_until = IF @ = NULL THEN NULL ELSE Some(toString(@[1])),
                !.revoked_at = IF @ = NULL THEN NULL ELSE Some(toString(@[1]))]

\* The record the callback of fetchOffchainAssociations builds from a
\* DbAssociation (lines 200-222) and the addresses it validates with.
rebuiltRecord(dbAssoc) ==
    [aar |-> [initiator |-> dbAssoc.initiator_bytes,
              approver |-> dbAssoc.approver_bytes,
              validAt |-> BigInt(dbAssoc.valid_at),
              validUntil |-> IF dbAssoc.valid_until # NULL
                             THEN BigInt(dbAssoc.valid_until[1]) ELSE 0,
              interfaceId |-> IF dbAssoc.interface_id # NULL
                              THEN dbAssoc.interface_id[1] ELSE NoInterfaceId,
              data |-> IF dbAssoc.data # NULL THEN dbAssoc.data[1] ELSE NoData],
     sar |-> [revokedAt |-> IF dbAssoc.revoked_at # NULL
                            THEN BigInt(dbAssoc.revoked_at[1]) ELSE 0,
              initiatorKeyType |-> parseInt16(dbAssoc.initiator_key_type),
              approverKeyType |-> parseInt16(dbAssoc.approver_key_type),
              initiatorSignature |-> dbAssoc.initiator_signature,
              approverSignature |-> dbAssoc.approver_signature],
     initiatorAddress |-> dbAssoc.initiator_address,
     approverAddress |-> dbAssoc.approver_address]

\* The records the hooks hold: the binary identifiers of two accounts, valid
\* from 0 or from MaxTime, open-ended or ending at 1, with or without an
\* interface id and data, revoked or not, the initiator's signature of each
\* kind the verifiers tell apart or missing, the approver's a good plain-key
\* one or missing.
StoredAars ==
    {[initiator |-> addressToErc7930(AddrA, 84532),
      approver |-> addressToErc7930(UpperB, 84532),
      validAt |-> t[1], validUntil |-> t[2],
      interfaceId |-> x[1], data |-> x[2]] :
        t \in {<<0, 0>>, <<0, 1>>, <<MaxTime, 0>>},
        x \in {<<NoInterfaceId, NoData>>,
               <<Hex(<<"1", "2", "3", "4", "A", "b", "c", "d">>),
                 Hex(<<"1", "2", "3", "4">>)>>}}
StoredSars ==
    {[revokedAt |-> v,
      initiatorKeyType |-> s[1], approverKeyType |-> a[1],
      initiatorSignature |-> s[2], approverSignature |-> a[2]] :
        v \in {0, 1, MaxTime + 10},
        s \in ListedSignatures \cup {<<DELEGATED, EmptySig>>},
        a \in {<<K1, PlainGoodSig>>, <<DELEGATED, EmptySig>>}}

\* A row stored earlier for the same two accounts.
EarlierRow ==
    insertedRow(databaseBody(CHOOSE a \in StoredAars :
                                 a.validAt = 0 /\ a.validUntil = 0
                                 /\ a.interfaceId = NoInterfaceId,
                             CHOOSE s \in StoredSars :
                                 s.initiatorSignature = PlainGoodSig
                                 /\ s.initiatorKeyType = K1
                                 /\ s.approverSignature = PlainGoodSig
                                 /\ s.revokedAt = 0), 1)

NoBody == <<>>

\* useAssociationStorage.handleStoreAssociation: writeContract with the
\* struct built from the hook's aar and sar.
StoreOnchain ==
    /\ spc = "store"
    /\ sent' = [by |-> "useAssociationStorage",
                args |-> contractSar(storageProps.aar, storageProps.sar)]
    /\ spc' = "written"
    /\ UNCHANGED <<storageProps, postNow, postChain, validationResult,
                   accountsTable, associationsTable, postResponse, rebuilt>>
    /\ UNCHANGED coreVars
    /\ UNCHANGED <<mergeVars, listVars, signingVars, codecVars>>
    /\ UNCHANGED afterPostVars

\* useDatabaseStorage.handleStoreAssociation up to its fetch: the POST
\* request is on its way.
StoreDatabase ==
    /\ spc = "store"
    /\ sent' = [by |-> "useDatabaseStorage",
                args |-> databaseBody(storageProps.aar, storageProps.sar)]
    /\ spc' = "POST"
    /\ UNCHANGED <<storageProps, postNow, postChain, validationResult,
                   accountsTable, associationsTable, postResponse, rebuilt>>
    /\ UNCHANGED coreVars
    /\ UNCHANGED <<mergeVars, listVars, signingVars, codecVars>>
    /\ UNCHANGED afterPostVars

\* Another client of the endpoint sends the record as it is.
PostDirectly ==
    /\ spc = "store"
    /\ sent' = [by |-> "client",
                args |-> directBody(storageProps.aar, storageProps.sar)]
    /\ spc' = "POST"
    /\ UNCHANGED <<storageProps, postNow, postChain, validationResult,
                   accountsTable, associationsTable, postResponse, rebuilt>>
    /\ UNCHANGED coreVars
    /\ UNCHANGED <<mergeVars, listVars, signingVars, codecVars>>
    /\ UNCHANGED afterPostVars

\* A variant that rejects nothing.
rejected_never(v) == FALSE

\* if (!validationResult.valid), line 69
rejected(v) == ~v.valid

\* POST, lines 33-74: the body is read, the record validated, and an invalid
\* one answered with status 400.
PostValidate ==
    /\ spc = "POST"
    /\ LET v == validateWithoutClient(postedRecord(sent.args), postNow)
       IN /\ validationResult' = Some(v)
          /\ IF rejected(v)
             THEN /\ postResponse' = Some([status |-> 400, success |-> FALSE,
                                          error |-> v.error])
                  /\ spc' = "responded"
             ELSE /\ spc' = "upsertInitiator"
                  /\ UNCHANGED postResponse
    /\ UNCHANGED <<storageProps, sent, postNow, postChain,
                   accountsTable, associationsTable, rebuilt>>
    /\ UNCHANGED coreVars
    /\ UNCHANGED <<mergeVars, listVars, signingVars, codecVars>>
    /\ UNCHANGED afterPostVars

\* Lines 77-86: INSERT INTO accounts ... ON CONFLICT DO NOTHING, for the
\* initiator and then for the approver.
PostUpsert ==
    /\ spc \in {"upsertInitiator", "upsertApprover"}
    /\ accountsTable' = accountsTable \cup
          {extractAddress(IF spc = "upsertInitiator"
                          THEN sent.args.aar.initiator
                          ELSE sent.args.aar.approver)}
    /\ spc' = IF spc = "upsertInitiator" THEN "upsertApprover" ELSE "insert"
    /\ UNCHANGED <<storageProps, sent, postNow, postChain, validationResult,
                   associationsTable, postResponse, rebuilt>>
    /\ UNCHANGED coreVars
    /\ UNCHANGED <<mergeVars, listVars, signingVars, codecVars>>
    /\ UNCHANGED afterPostVars

\* Lines 89-127: the row is inserted and its id returned.
PostInsert ==
    /\ spc = "insert"
    /\ LET id == Len(associationsTable) + 1
       IN /\ associationsTable' =
                Append(associationsTable, insertedRow(sent.args, id))
          /\ postResponse' = Some([status |-> 200, success |-> TRUE,
                                   associationId |-> id])
    /\ spc' = "responded"
    /\ UNCHANGED <<storageProps, sent, postNow, postChain, validationResult,
                   accountsTable, rebuilt>>
    /\ UNCHANGED coreVars
    /\ UNCHANGED <<mergeVars, listVars, signingVars, codecVars>>
    /\ UNCHANGED afterPostVars

\* A statement of the handler fails (the database is unreachable): the catch
\* block answers with status 500 (lines 128-134).
PostFails ==
    /\ spc \in {"upsertInitiator", "upsertApprover", "insert"}
    /\ postResponse' = Some([status |-> 500, success |-> FALSE,
                             error |-> <<"Unknown error">>])
    /\ spc' = "responded"
    /\ UNCHANGED <<storageProps, sent, postNow, postChain, validationResult,
                   accountsTable, associationsTable, rebuilt>>
    /\ UNCHANGED coreVars
    /\ UNCHANGED <<mergeVars, listVars, signingVars, codecVars>>
    /\ UNCHANGED afterPostVars

\* fetchOffchainAssociations, lines 191-222: every row GET returns is
\* rebuilt into an AAR and a SAR.
FetchOffchain ==
    /\ spc = "responded"
    /\ rebuilt' = [i \in DOMAIN associationsTable |->
                      rebuiltRecord(dbAssociation(associationsTable[i]))]
    /\ spc' = "fetched"
    /\ UNCHANGED <<storageProps, sent, postNow, postChain, validationResult,
                   accountsTable, associationsTable, postResponse>>
    /\ UNCHANGED coreVars
    /\ UNCHANGED <<mergeVars, listVars, signingVars, codecVars>>
    /\ UNCHANGED afterPostVars

PostIdle ==
    /\ storageProps = <<>>
    /\ sent = NoBody
    /\ spc = "idle"
    /\ postNow = 0
    /\ postChain = <<>>
    /\ validationResult = undefined
    /\ accountsTable = {}
    /\ associationsTable = <<>>
    /\ postResponse = undefined
    /\ rebuilt = <<>>

\* A hook holds a record and its store button is pressed, at some instant,
\* the chain being in some state; the tables are empty or hold a row stored
\* earlier for the same accounts.
PostInit ==
    /\ storageProps \in [aar : StoredAars, sar : StoredSars]
    /\ sent = NoBody
    /\ spc = "store"
    /\ postNow \in Instants
    /\ postChain \in [getCode : CodeAnswers,
                      isValidSig : {"true", "false", "revert"},
                      isValidSignature : {"magic", "other"}]
    /\ validationResult = undefined
    /\ \/ accountsTable = {} /\ associationsTable = <<>>
       \/ /\ accountsTable = {EarlierRow.initiator_address,
                              EarlierRow.approver_address}
          /\ associationsTable = <<EarlierRow>>
    /\ postResponse = undefined
    /\ rebuilt = <<>>

\* The components around the three above, at rest.
----------------------------------------------------------------------------
(* AssociationsGraph: the two fetch effects and the address they fetch for *)

\* The number of times the effects run in a behaviour.
MaxRuns == 3

\* The associations the on-chain store and the database hold, by pair.
StoredOnchain == <<(<<AddrA, AddrB>>), (<<AddrB, AddrC>>)>>
StoredOffchain == <<(<<AddrA, AddrC>>), (<<AddrB, AddrC>>)>>

\* The addresses the graph is pointed at: the connected wallet's or the one
\* searched for; NULL when neither is there.
Targets == {NULL, AddrA, AddrB, AddrC}

\* The entries of a store that name an address as initiator or approver.
involving(store, a) ==
    SelectSeq([i \in 1..Len(store) |-> <<i, store[i]>>],
              LAMBDA e : a \in {e[2][1], e[2][2]})

\* What fetchOnchainAssociations builds from getAssociationsForAccount.
fetchedOnchain(a) ==
    LET es == involving(StoredOnchain, a)
    IN [i \in 1..Len(es) |-> FullAssociation("onchain", es[i][1], es[i][2])]

\* What fetchOffchainAssociations builds from GET ?address=.
fetchedOffchain(a) ==
    LET es == involving(StoredOffchain, a)
    IN [i \in 1..Len(es) |-> FullAssociation("offchain", es[i][1], es[i][2])]

\* The two effects run for a target: without one the lists are emptied,
\* with one a fetch of each kind is started. Nothing is done about the
\* fetches started by earlier runs.
RunEffects(a) ==
    /\ effectRuns < MaxRuns
    /\ effectRuns' = effectRuns + 1
    /\ IF a = NULL
       THEN /\ onchainAssociations' = <<>>
            /\ offchainAssociations' = <<>>
            /\ flights' = flights
       ELSE /\ flights' = flights \cup
                    {[fetch |-> f, target |-> a, run |-> effectRuns + 1] :
                        f \in {"fetchOnchainAssociations",
                               "fetchOffchainAssociations"}}
            /\ UNCHANGED <<onchainAssociations, offchainAssociations>>

\* The wallet connects, disconnects or changes, or a search is made or left.
TargetChanges ==
    /\ \E a \in Targets \ {targetAddress} :
        /\ targetAddress' = a
        /\ RunEffects(a)
    /\ UNCHANGED <<pairMap, mpc, mergedAssociations>>
    /\ UNCHANGED coreVars
    /\ UNCHANGED <<listVars, signingVars, codecVars, postVars>>
    /\ UNCHANGED afterFetchVars

\* refreshTrigger changes.
Refresh ==
    /\ RunEffects(targetAddress)
    /\ UNCHANGED targetAddress
    /\ UNCHANGED <<pairMap, mpc, mergedAssociations>>
    /\ UNCHANGED coreVars
    /\ UNCHANGED <<listVars, signingVars, codecVars, postVars>>
    /\ UNCHANGED afterFetchVars

\* An on-chain fetch resolves: setOnchainAssociations(associations), for
\* whichever target the fetch was started.
ResolveOnchain ==
    /\ \E f \in flights :
        /\ f.fetch = "fetchOnchainAssociations"
        /\ flights' = flights \ {f}
        /\ onchainAssociations' = fetchedOnchain(f.target)
    /\ UNCHANGED <<offchainAssociations, pairMap, mpc, mergedAssociations>>
    /\ UNCHANGED <<targetAddress, effectRuns>>
    /\ UNCHANGED coreVars
    /\ UNCHANGED <<listVars, signingVars, codecVars, postVars>>
    /\ UNCHANGED afterFetchVars

\* An off-chain fetch resolves: setOffchainAssociations(associations).
ResolveOffchain ==
    /\ \E f \in flights :
        /\ f.fetch = "fetchOffchainAssociations"
        /\ flights' = flights \ {f}
        /\ offchainAssociations' = fetchedOffchain(f.target)
    /\ UNCHANGED <<onchainAssociations, pairMap, mpc, mergedAssociations>>
    /\ UNCHANGED <<targetAddress, effectRuns>>
    /\ UNCHANGED coreVars
    /\ UNCHANGED <<listVars, signingVars, codecVars, postVars>>
    /\ UNCHANGED afterFetchVars

\* A fetch fails: the catch block logs, or the response is not a success.
FetchFails ==
    /\ \E f \in flights : flights' = flights \ {f}
    /\ UNCHANGED mergeVars
    /\ UNCHANGED <<targetAddress, effectRuns>>
    /\ UNCHANGED coreVars
    /\ UNCHANGED <<listVars, signingVars, codecVars, postVars>>
    /\ UNCHANGED afterFetchVars

FetchIdle ==
    /\ targetAddress = NULL
    /\ flights = {}
    /\ effectRuns = 0

\* The graph is mounted, with or without a connected wallet, and the
\* effects have run once.
FetchInit ==
    /\ targetAddress \in Targets
    /\ effectRuns = 1
    /\ flights = IF targetAddress = NULL THEN {}
                 ELSE {[fetch |-> f, target |-> targetAddress, run |-> 1] :
                          f \in {"fetchOnchainAssociations",
                                 "fetchOffchainAssociations"}}

----------------------------------------------------------------------------
(* The creation flow: Home (page.tsx) holds the write-tab records, Demo the *)
(* flow step, ControlPanel its local state and the effects; the signing    *)
(* and storage hooks run asynchronously on the records of the render in    *)
(* which they were started.                                                *)

\* createEmptyAAR / createEmptySAR of lib/types.ts.
createEmptyAAR ==
    [initiator |-> Hex(<<>>), approver |-> Hex(<<>>), validAt |-> 0,
     validUntil |-> 0, interfaceId |-> NoInterfaceId, data |-> NoData]
createEmptySAR ==
    [revokedAt |-> 0, initiatorKeyType |-> 0, approverKeyType |-> 0,
     initiatorSignature |-> Hex(<<>>), approverSignature |-> Hex(<<>>),
     record |-> createEmptyAAR]

\* baseSepolia.id
BaseSepoliaId == 84532

\* How often the revoke mode is started from the Read tab and how often
\* 'Start Over' is clicked in a behaviour.
MaxTriggers == 1
MaxResets == 1

\* The accounts a wallet connects with: a smart-contract wallet deployed
\* on Base Sepolia, which the resolver takes for a plain key when its code
\* query fails, and one not deployed yet, whose signatures come wrapped
\* with the ERC-6492 suffix.
FlowWallets == {AddrA, AddrB}
deployed(a) == a = AddrA

\* The signature the wallet of an account returns for the typed data.
walletSignature(a) ==
    IF a = AddrA THEN Hex(<<"a", "1">>)
    ELSE Hex(<<"b", "1">>) \o Tail(Tail(ERC6492_MAGIC_SUFFIX))

\* What the approver field is submitted with: nothing that resolves, or an
\* address in some spelling.
ApproverInputs == {NULL, AddrA, UpperB}

\* The local state of ControlPanel after mounting.
PanelInit ==
    [initiatorAddress |-> NULL, approverInput |-> NULL, error |-> NULL,
     awaitingInitiatorConnect |-> TRUE, awaitingApproverConnect |-> FALSE,
     storageMethod |-> "onchain"]

\* resolvedAddress ?? (isAddress(approverInput) ? approverInput : null)
effectiveApproverAddress(p) == p.approverInput

\* The state a render of ControlPanel sees.
Render ==
    [flowStep |-> flowStep, aar |-> writeAar, sar |-> writeSar,
     panel |-> panel, address |-> connectedAddress,
     isConfirmed |-> isConfirmed]

\* The effects of ControlPanel and of useAssociationStorage, run on the
\* state of one render; the setters they call are applied together.
runEffects(u) ==
    LET p == u.panel
        isConnected == u.address # NULL
        offline == ~isConnected
        initiatorConnects ==
            /\ u.flowStep = "connect-initiator" /\ isConnected
            /\ p.awaitingInitiatorConnect
        walletChanges ==
            /\ u.flowStep = "input-approver" /\ isConnected
            /\ p.initiatorAddress # NULL
            /\ hexToLowerCase(u.address) # hexToLowerCase(p.initiatorAddress)
        approverConnects ==
            /\ u.flowStep = "connect-approver" /\ isConnected
            /\ p.awaitingApproverConnect
            /\ effectiveApproverAddress(p) # NULL
        rightWallet ==
            /\ approverConnects
            /\ hexToLowerCase(u.address)
                 = hexToLowerCase(effectiveApproverAddress(p))
        stored == u.isConfirmed /\ u.flowStep = "store-association"
    IN [u EXCEPT
          !.flowStep = IF initiatorConnects THEN "input-approver"
                       ELSE IF rightWallet THEN "sign-approver"
                       ELSE IF stored THEN "complete"
                       ELSE @,
          !.aar = IF initiatorConnects \/ walletChanges
                  THEN [@ EXCEPT !.initiator =
                            addressToErc7930(u.address, BaseSepoliaId)]
                  ELSE @,
          !.panel =
             [p EXCEPT
                !.initiatorAddress =
                    IF initiatorConnects \/ walletChanges THEN u.address ELSE @,
                !.awaitingInitiatorConnect =
                    IF initiatorConnects THEN FALSE
                    ELSE IF offline /\ u.flowStep = "connect-initiator" THEN TRUE
                    ELSE @,
                !.awaitingApproverConnect =
                    IF approverConnects THEN FALSE
                    ELSE IF offline /\ u.flowStep = "connect-approver" THEN TRUE
                    ELSE @,
                !.error =
                    IF approverConnects
                    THEN (IF rightWallet THEN NULL ELSE Some("Wrong wallet"))
                    ELSE @]]

\* Renders and effects follow one another until no effect changes anything.
RECURSIVE settle(_)
settle(u) == IF runEffects(u) = u THEN u ELSE settle(runEffects(u))

\* A handler's updates are applied, and with them what the effects do.
Commit(u) ==
    LET v == settle(u)
    IN /\ flowStep' = v.flowStep
       /\ writeAar' = v.aar
       /\ writeSar' = v.sar
       /\ panel' = v.panel
       /\ connectedAddress' = v.address
       /\ isConfirmed' = v.isConfirmed

\* What none of the flow's actions touch.
FlowFrame ==
    /\ UNCHANGED coreVars
    /\ UNCHANGED <<mergeVars, listVars, signingVars, codecVars, postVars>>
    /\ UNCHANGED fetchVars
    /\ UNCHANGED afterFlowVars

\* The wallet connects (handleConnect and the wallet's own dialog).
Connect ==
    /\ connectedAddress = NULL
    /\ \E a \in FlowWallets : Commit([Render EXCEPT !.address = a])
    /\ UNCHANGED <<signing, storing, txPending, readSelection, revokeModeTrigger>>
    /\ UNCHANGED resets
    /\ FlowFrame

\* handleDisconnect, or the wallet disconnects by itself.
Disconnect ==
    /\ connectedAddress # NULL
    /\ Commit([Render EXCEPT !.address = NULL])
    /\ UNCHANGED <<signing, storing, txPending, readSelection, revokeModeTrigger>>
    /\ UNCHANGED resets
    /\ FlowFrame

\* The user switches accounts inside the connected wallet.
AccountChanges ==
    /\ connectedAddress # NULL
    /\ \E a \in FlowWallets \ {connectedAddress} :
        Commit([Render EXCEPT !.address = a])
    /\ UNCHANGED <<signing, storing, txPending, readSelection, revokeModeTrigger>>
    /\ UNCHANGED resets
    /\ FlowFrame

\* The approver field is filled in and submitted: handleSubmitApprover, with
\* the optional fields left at their defaults, at the instant 1.
SubmitApprover ==
    /\ flowStep = "input-approver"
    /\ \E input \in ApproverInputs, dateNow \in {1} :
        LET p == [panel EXCEPT !.approverInput = input]
            approver == effectiveApproverAddress(p)
            newAar ==
                [initiator |-> addressToErc7930(p.initiatorAddress, BaseSepoliaId),
                 approver |-> addressToErc7930(approver, BaseSepoliaId),
                 validAt |-> dateNow, validUntil |-> 0,
                 interfaceId |-> NoInterfaceId, data |-> NoData]
        IN IF p.initiatorAddress = NULL
           THEN Commit([Render EXCEPT
                    !.panel = [p EXCEPT !.error = Some("Initiator address not set")]])
           ELSE IF approver = NULL
           THEN Commit([Render EXCEPT
                    !.panel = [p EXCEPT !.error = Some("Invalid address")]])
           ELSE IF hexToLowerCase(approver) = hexToLowerCase(p.initiatorAddress)
           THEN Commit([Render EXCEPT
                    !.panel = [p EXCEPT !.error = Some("Must be different from initiator")]])
           ELSE Commit([Render EXCEPT
                    !.panel = [p EXCEPT !.error = NULL],
                    !.aar = newAar,
                    !.sar = [writeSar EXCEPT !.record = newAar],
                    !.flowStep = "sign-initiator"])
    /\ UNCHANGED <<signing, storing, txPending, readSelection, revokeModeTrigger>>
    /\ UNCHANGED resets
    /\ FlowFrame

\* handleSignInitiator / handleSignApprover up to the first await: the
\* handler keeps the sar and the address of the render it was created in.
SignStarts ==
    /\ signing = NULL
    /\ flowStep \in {"sign-initiator", "sign-approver"}
    /\ signing' = [handler |-> IF flowStep = "sign-initiator"
                                THEN "handleSignInitiator"
                                ELSE "handleSignApprover",
                   sar |-> writeSar, address |-> connectedAddress]
    /\ Commit([Render EXCEPT !.panel = [panel EXCEPT !.error = NULL]])
    /\ UNCHANGED <<storing, txPending, readSelection, revokeModeTrigger>>
    /\ UNCHANGED resets
    /\ FlowFrame

\* getKeyTypeForSignature for a signature and the signer's address, given
\* the answer of the code query.
keyTypeFor(signature, address, code) ==
    IF isErc6492Signature(signature) THEN ERC6492
    ELSE IF address # NULL /\ code # "fail" /\ isSmartContract(code)
    THEN ERC1271
    ELSE K1

\* A variant that writes the key type and leaves the signature for later.
signedBy_typeFirst(s, who, signature, kt) ==
    IF who = "initiator"
    THEN [s EXCEPT !.initiatorKeyType = kt]
    ELSE [s EXCEPT !.approverKeyType = kt]

\* setSar({...sar, <party>Signature: signature, <party>KeyType: keyType})
signedBy(s, who, signature, kt) ==
    IF who = "initiator"
    THEN [s EXCEPT !.initiatorSignature = signature, !.initiatorKeyType = kt]
    ELSE [s EXCEPT !.approverSignature = signature, !.approverKeyType = kt]

\* The answers the code query may give for an address.
CodeAt(a) == {"fail", IF deployed(a) THEN "code" ELSE "none"}

\* The wallet returns the initiator's signature: the key type is resolved,
\* both are written, the wallet is disconnected and the flow moves on.
SignInitiatorSettles ==
    /\ signing # NULL /\ signing.handler = "handleSignInitiator"
    /\ signing.address # NULL
    /\ \E code \in CodeAt(signing.address) :
        LET signature == walletSignature(signing.address)
            kt == keyTypeFor(signature, signing.address, code)
        IN Commit([Render EXCEPT
                !.sar = signedBy(signing.sar, "initiator", signature, kt),
                !.address = NULL,
                !.flowStep = "connect-approver"])
    /\ signing' = NULL
    /\ UNCHANGED <<storing, txPending, readSelection, revokeModeTrigger>>
    /\ UNCHANGED resets
    /\ FlowFrame

\* The wallet returns the approver's signature.
SignApproverSettles ==
    /\ signing # NULL /\ signing.handler = "handleSignApprover"
    /\ signing.address # NULL
    /\ \E code \in CodeAt(signing.address) :
        LET signature == walletSignature(signing.address)
            kt == keyTypeFor(signature, signing.address, code)
        IN Commit([Render EXCEPT
                !.sar = signedBy(signing.sar, "approver", signature, kt),
                !.flowStep = "store-association"])
    /\ signing' = NULL
    /\ UNCHANGED <<storing, txPending, readSelection, revokeModeTrigger>>
    /\ UNCHANGED resets
    /\ FlowFrame

\* The user rejects the request or the wallet fails: the catch block.
SignFails ==
    /\ signing # NULL
    /\ signing' = NULL
    /\ Commit([Render EXCEPT !.panel = [panel EXCEPT !.error = Some("Signing failed")]])
    /\ UNCHANGED <<storing, txPending, readSelection, revokeModeTrigger>>
    /\ UNCHANGED resets
    /\ FlowFrame

\* The radio buttons of the store step.
SetStorageMethod ==
    /\ flowStep = "store-association"
    /\ \E m \in {"onchain", "database"} \ {panel.storageMethod} :
        Commit([Render EXCEPT !.panel = [panel EXCEPT !.storageMethod = m]])
    /\ UNCHANGED <<signing, storing, txPending, readSelection, revokeModeTrigger>>
    /\ UNCHANGED resets
    /\ FlowFrame

\* useAssociationStorage.handleStoreAssociation: writeContract is called; a
\* new write forgets the receipt of the one before.
WriteContract ==
    /\ flowStep = "store-association"
    /\ panel.storageMethod = "onchain"
    /\ ~txPending
    /\ txPending' = TRUE
    /\ Commit([Render EXCEPT !.isConfirmed = FALSE,
                             !.panel = [panel EXCEPT !.error = NULL]])
    /\ UNCHANGED <<signing, storing, readSelection, revokeModeTrigger>>
    /\ UNCHANGED resets
    /\ FlowFrame

\* The receipt of the transaction arrives: isConfirmed.
TransactionConfirms ==
    /\ txPending
    /\ txPending' = FALSE
    /\ Commit([Render EXCEPT !.isConfirmed = TRUE])
    /\ UNCHANGED <<signing, storing, readSelection, revokeModeTrigger>>
    /\ UNCHANGED resets
    /\ FlowFrame

\* The user rejects the transaction or it fails: writeError.
TransactionFails ==
    /\ txPending
    /\ txPending' = FALSE
    /\ Commit([Render EXCEPT
            !.panel = [panel EXCEPT !.error = Some("User rejected the transaction")]])
    /\ UNCHANGED <<signing, storing, readSelection, revokeModeTrigger>>
    /\ UNCHANGED resets
    /\ FlowFrame

\* useDatabaseStorage.handleStoreAssociation up to its await.
StoreStarts ==
    /\ flowStep = "store-association"
    /\ panel.storageMethod = "database"
    /\ ~storing
    /\ storing' = TRUE
    /\ Commit([Render EXCEPT !.panel = [panel EXCEPT !.error = NULL]])
    /\ UNCHANGED <<signing, txPending, readSelection, revokeModeTrigger>>
    /\ UNCHANGED resets
    /\ FlowFrame

\* The POST answered with success: setFlowStep('complete'), whatever the
\* step is by then.
StoreSettles ==
    /\ storing
    /\ storing' = FALSE
    /\ Commit([Render EXCEPT !.flowStep = "complete"])
    /\ UNCHANGED <<signing, txPending, readSelection, revokeModeTrigger>>
    /\ UNCHANGED resets
    /\ FlowFrame

\* The POST answered with an error, or the request failed.
StoreFails ==
    /\ storing
    /\ storing' = FALSE
    /\ Commit([Render EXCEPT
            !.panel = [panel EXCEPT !.error = Some("Failed to store association")]])
    /\ UNCHANGED <<signing, txPending, readSelection, revokeModeTrigger>>
    /\ UNCHANGED resets
    /\ FlowFrame

\* handleReset ('Start Over'): the handlers in flight are left running.
Reset ==
    /\ flowStep # "connect-initiator"
    /\ resets < MaxResets
    /\ resets' = resets + 1
    /\ Commit([Render EXCEPT
            !.address = NULL,
            !.flowStep = "connect-initiator",
            !.panel = [initiatorAddress |-> NULL, approverInput |-> NULL,
                       error |-> NULL, awaitingInitiatorConnect |-> FALSE,
                       awaitingApproverConnect |-> FALSE,
                       storageMethod |-> "onchain"],
            !.aar = createEmptyAAR,
            !.sar = createEmptySAR])
    /\ UNCHANGED <<signing, storing, txPending, readSelection, revokeModeTrigger>>
    /\ FlowFrame

\* The records the graph shows, as the two stores hold them: one made by
\* this flow, and one a client stored with the approver's signature only.
ReadRecords ==
    LET made == [initiator |-> addressToErc7930(AddrA, BaseSepoliaId),
                 approver |-> addressToErc7930(AddrB, BaseSepoliaId),
                 validAt |-> 1, validUntil |-> 0,
                 interfaceId |-> NoInterfaceId, data |-> NoData]
    IN <<[source |-> "onchain", aar |-> made,
          sar |-> [revokedAt |-> 0, initiatorKeyType |-> K1,
                   approverKeyType |-> ERC6492,
                   initiatorSignature |-> walletSignature(AddrA),
                   approverSignature |-> walletSignature(AddrB),
                   record |-> made]],
         [source |-> "offchain", aar |-> made,
          sar |-> [revokedAt |-> 0, initiatorKeyType |-> DELEGATED,
                   approverKeyType |-> ERC6492,
                   initiatorSignature |-> Hex(<<>>),
                   approverSignature |-> walletSignature(AddrB),
                   record |-> made]]>>

\* The effect on revokeModeTrigger, revokeSource and revokeAssociationId,
\* which runs when any of the three changes.
revokeMode(u, trigger, selection) ==
    IF trigger > 0 /\ selection # NULL
    THEN [u EXCEPT
            !.flowStep = "revoke-existing",
            !.panel = [@ EXCEPT
                !.storageMethod =
                    IF ReadRecords[selection[1]].source = "onchain"
                    THEN "onchain" ELSE "database",
                !.error = NULL]]
    ELSE u

\* handleAssociationSelect: an association of the graph is clicked.
SelectAssociation ==
    /\ \E i \in DOMAIN ReadRecords :
        /\ Some(i) # readSelection
        /\ readSelection' = Some(i)
        /\ Commit(revokeMode(Render, revokeModeTrigger, Some(i)))
    /\ UNCHANGED <<signing, storing, txPending, revokeModeTrigger>>
    /\ UNCHANGED resets
    /\ FlowFrame

\* canRevoke of page.tsx: the connected wallet is a party of the record
\* shown and the record is not revoked.
canRevoke ==
    /\ connectedAddress # NULL
    /\ readSelection # NULL
    /\ ReadRecords[readSelection[1]].sar.revokedAt = 0
    /\ hexToLowerCase(connectedAddress) \in
          {extractAddress(ReadRecords[readSelection[1]].aar.initiator),
           extractAddress(ReadRecords[readSelection[1]].aar.approver)}

\* handleInitiateRevoke: the record shown in the Read tab becomes the
\* record of the Write tab.
InitiateRevoke ==
    /\ canRevoke
    /\ revokeModeTrigger < MaxTriggers
    /\ revokeModeTrigger' = revokeModeTrigger + 1
    /\ Commit(revokeMode([Render EXCEPT
                             !.aar = ReadRecords[readSelection[1]].aar,
                             !.sar = ReadRecords[readSelection[1]].sar],
                         revokeModeTrigger + 1, readSelection))
    /\ UNCHANGED <<signing, storing, txPending, readSelection>>
    /\ UNCHANGED resets
    /\ FlowFrame

FlowIdle ==
    /\ flowStep = "connect-initiator"
    /\ writeAar = createEmptyAAR
    /\ writeSar = createEmptySAR
    /\ panel = PanelInit
    /\ connectedAddress = NULL
    /\ signing = NULL
    /\ storing = FALSE
    /\ txPending = FALSE
    /\ isConfirmed = FALSE
    /\ readSelection = NULL
    /\ revokeModeTrigger = 0
    /\ resets = 0

\* The page after mounting is the page at rest.
FlowInit == FlowIdle

----------------------------------------------------------------------------
(* Revoking from the flow: useDatabaseRevocation signs a message and sends  *)
(* a PATCH, useAssociationRevocation sends a transaction and waits for its *)
(* receipt.  The server's side of the PATCH is the action PATCH above.     *)

\* The row of the association the flow stored, and the wallets that may be
\* connected: none, or an account by its short name in the store.
StoredId == 1
RevokingWallets == {NULL, Some("0xaa"), Some("0xcc")}

\* What the revocation actions leave alone.
RevokeFrame ==
    /\ UNCHANGED engineVars
    /\ UNCHANGED resolverVars
    /\ UNCHANGED <<mergeVars, listVars, signingVars, codecVars, postVars>>
    /\ UNCHANGED fetchVars
    /\ UNCHANGED <<flowStep, writeAar, connectedAddress, signing, storing,
                   txPending, isConfirmed, readSelection, revokeModeTrigger,
                   resets>>

\* Date.now() moves on.
TimePasses ==
    /\ timeNow < MaxTime
    /\ timeNow' = timeNow + 1
    /\ UNCHANGED <<isRevoking, revoking, revokeTxPending, isRevokeConfirmed>>
    /\ UNCHANGED <<writeSar, panel>>
    /\ UNCHANGED storeVars
    /\ RevokeFrame

\* The revoke button of the database method is there.
DatabaseRevokeOffered ==
    /\ panel.storageMethod = "database"
    /\ \/ flowStep = "complete" /\ writeSar.revokedAt = 0
       \/ flowStep = "revoke-existing" /\ connectedAddress # NULL
                                       /\ writeSar.revokedAt = 0
    /\ ~isRevoking

\* useDatabaseRevocation.handleRevoke up to its first await: the timestamp
\* is taken and the message built; the handler keeps the sar of its render.
RevokeStarts ==
    /\ DatabaseRevokeOffered
    /\ IF connectedAddress = NULL
       THEN /\ panel' = [panel EXCEPT !.error = Some("Wallet not connected")]
            /\ UNCHANGED <<isRevoking, revoking>>
       ELSE /\ panel' = [panel EXCEPT !.error = NULL]
            /\ isRevoking' = TRUE
            /\ revoking' = [sar |-> writeSar, timestamp |-> timeNow,
                            address |-> connectedAddress[1],
                            awaits |-> "signMessageAsync"]
    /\ UNCHANGED <<timeNow, revokeTxPending, isRevokeConfirmed, writeSar>>
    /\ UNCHANGED storeVars
    /\ RevokeFrame

\* The wallet signed the message: the PATCH request is sent.
RevokeSigned ==
    /\ revoking # NULL /\ revoking.awaits = "signMessageAsync"
    /\ handler = "idle"
    /\ LET message == RevokeMessage(StoredId, revoking.timestamp)
       IN request' = [id |-> StoredId,
                      revokedAt |-> Some(revoking.timestamp),
                      message |-> message,
                      signature |-> [by |-> toLowerCase(revoking.address),
                                     over |-> message],
                      signer |-> revoking.address]
    /\ handler' = "handling"
    /\ revoking' = [revoking EXCEPT !.awaits = "fetch"]
    /\ UNCHANGED <<db, response>>
    /\ UNCHANGED <<timeNow, isRevoking, revokeTxPending, isRevokeConfirmed,
                   writeSar, panel>>
    /\ RevokeFrame

\* The user rejects the signature request: catch and finally.
RevokeRejected ==
    /\ revoking # NULL /\ revoking.awaits = "signMessageAsync"
    /\ revoking' = NULL
    /\ isRevoking' = FALSE
    /\ panel' = [panel EXCEPT !.error = Some("User rejected the signature request")]
    /\ UNCHANGED <<timeNow, revokeTxPending, isRevokeConfirmed, writeSar>>
    /\ UNCHANGED storeVars
    /\ RevokeFrame

\* setSar({...sar, revokedAt: BigInt(timestamp)})
revokedLocally(s, timestamp) == [s EXCEPT !.revokedAt = timestamp]

\* The response to the PATCH arrived: on success the local record is marked
\* revoked at the timestamp sent, otherwise the error is shown.
RevokeSettles ==
    /\ revoking # NULL /\ revoking.awaits = "fetch"
    /\ handler = "responded"
    /\ IF response.status = 200 /\ response.success
       THEN /\ writeSar' = revokedLocally(revoking.sar, revoking.timestamp)
            /\ UNCHANGED panel
       ELSE /\ panel' = [panel EXCEPT !.error = Some(response.error)]
            /\ UNCHANGED writeSar
    /\ revoking' = NULL
    /\ isRevoking' = FALSE
    /\ handler' = "idle"
    /\ request' = NoRequest
    /\ response' = NoResponse
    /\ UNCHANGED db
    /\ UNCHANGED <<timeNow, revokeTxPending, isRevokeConfirmed>>
    /\ RevokeFrame

\* The other party of the association revokes it from its own browser: a
\* PATCH of its own, accepted.
OtherPartyRevokes ==
    /\ handler = "idle"
    /\ db[StoredId].revoked_at = NULL
    /\ db' = update(db, StoredId, timeNow)
    /\ UNCHANGED <<handler, request, response>>
    /\ UNCHANGED <<timeNow, isRevoking, revoking, revokeTxPending,
                   isRevokeConfirmed, writeSar, panel>>
    /\ RevokeFrame

\* useAssociationRevocation.handleRevoke: writeContract(revokeAssociation).
WriteRevocation ==
    /\ flowStep = "complete"
    /\ panel.storageMethod = "onchain"
    /\ writeSar.revokedAt = 0
    /\ ~revokeTxPending /\ ~isRevokeConfirmed
    /\ revokeTxPending' = TRUE
    /\ panel' = [panel EXCEPT !.error = NULL]
    /\ UNCHANGED <<timeNow, isRevoking, revoking, isRevokeConfirmed, writeSar>>
    /\ UNCHANGED storeVars
    /\ RevokeFrame

\* The user rejects the transaction or it fails: revokeError.
RevocationFails ==
    /\ revokeTxPending
    /\ revokeTxPending' = FALSE
    /\ panel' = [panel EXCEPT !.error = Some("User rejected the transaction")]
    /\ UNCHANGED <<timeNow, isRevoking, revoking, isRevokeConfirmed, writeSar>>
    /\ UNCHANGED storeVars
    /\ RevokeFrame

\* The receipt arrives: isRevokeConfirmed becomes true and stays so.
RevocationConfirms ==
    /\ revokeTxPending
    /\ revokeTxPending' = FALSE
    /\ isRevokeConfirmed' = TRUE
    /\ UNCHANGED <<timeNow, isRevoking, revoking, writeSar, panel>>
    /\ UNCHANGED storeVars
    /\ RevokeFrame

\* The effect on [isRevokeConfirmed, sar, setSar]: it is due after every
\* render in which one of them changed, its own setSar included, since
\* that makes a new sar.
confirmationDue(confirmed) == confirmed

\* useEffect(() => { if (isRevokeConfirmed) setSar({...sar, revokedAt: now}) })
ConfirmationEffect ==
    /\ confirmationDue(isRevokeConfirmed)
    /\ writeSar' = [writeSar EXCEPT !.revokedAt = timeNow]
    /\ UNCHANGED <<timeNow, isRevoking, revoking, revokeTxPending,
                   isRevokeConfirmed, panel>>
    /\ UNCHANGED storeVars
    /\ RevokeFrame

RevokeIdle ==
    /\ timeNow = 0
    /\ isRevoking = FALSE
    /\ revoking = NULL
    /\ revokeTxPending = FALSE
    /\ isRevokeConfirmed = FALSE

\* The flow has stored an association, on chain or in the database, or a
\* stored one was taken over from the Read tab; the wallet of a party, of
\* a stranger or none is connected.
RevokeInit ==
    /\ \E step \in {"complete", "revoke-existing"},
          method \in {"onchain", "database"} :
        /\ flowStep = step
        /\ panel = [PanelInit EXCEPT !.storageMethod = method,
                                     !.awaitingInitiatorConnect = FALSE]
    /\ writeAar = ReadRecords[1].aar
    /\ writeSar = ReadRecords[1].sar
    /\ connectedAddress \in RevokingWallets
    /\ signing = NULL
    /\ storing = FALSE
    /\ txPending = FALSE
    /\ isConfirmed = FALSE
    /\ readSelection = NULL
    /\ revokeModeTrigger = 0
    /\ resets = 0
    /\ timeNow = 1
    /\ isRevoking = FALSE
    /\ revoking = NULL
    /\ revokeTxPending = FALSE
    /\ isRevokeConfirmed = FALSE

AfterFetchIdle == FlowIdle /\ RevokeIdle

AfterPostIdle == FetchIdle /\ AfterFetchIdle

\* The components modelled after the codec, at rest.
LateIdle == PostIdle /\ AfterPostIdle

AppIdle == MergeIdle /\ ListIdle /\ SigningIdle /\ CodecIdle /\ LateIdle

----------------------------------------------------------------------------
(* Specifications *)

Init == EngineInit /\ StoreIdle /\ ResolverIdle /\ AppIdle

Next ==
    \/ CheckValidAt
    \/ CheckValidUntil
    \/ CheckRevokedAt
    \/ VerifySignature
    \/ GetCode
    \/ UniversalValidatorCall
    \/ verifyErc1271Signature("isValidSignature")
    \/ verifyErc1271Signature("innerIsValidSignature")
    \/ Tick

Spec == Init /\ [][Next]_vars

StoreNext == ReceivePATCH \/ PATCH \/ Respond

InitStore == EngineIdle /\ StoreInit /\ ResolverIdle /\ AppIdle

SpecStore == InitStore /\ [][StoreNext]_vars

ResolverNext == getKeyTypeForSignature \/ ResolveCode

InitResolver == EngineIdle /\ StoreIdle /\ ResolverInit /\ AppIdle

SpecResolver == InitResolver /\ [][ResolverNext]_vars

MergeNext == MergeOnchain \/ MergeNextLoop \/ MergeOffchain \/ MergeReturn

InitMerge ==
    EngineIdle /\ StoreIdle /\ ResolverIdle /\ MergeInit /\ ListIdle /\ SigningIdle
    /\ CodecIdle /\ LateIdle

SpecMerge == InitMerge /\ [][MergeNext]_vars

ListNext ==
    \/ MapCalls
    \/ \E i \in Indexes : Resume(i)
    \/ PromiseAllResolves
    \/ PromiseAllRejects

InitList ==
    EngineIdle /\ StoreIdle /\ ResolverIdle /\ MergeIdle /\ ListInit /\ SigningIdle
    /\ CodecIdle /\ LateIdle

SpecList == InitList /\ [][ListNext]_vars

SigningNext ==
    \/ \E c \in Chains : SignOn(c)
    \/ \E c, v \in Chains : VerifyOn(c, v)

InitSigning ==
    EngineIdle /\ StoreIdle /\ ResolverIdle /\ MergeIdle /\ ListIdle /\ SigningInit
    /\ CodecIdle /\ LateIdle

SpecSigning == InitSigning /\ [][SigningNext]_vars

CodecNext ==
    \/ ExtractAddress
    \/ AddressToErc7930
    \/ WrapErc6492Signature
    \/ UnwrapErc6492Signature

InitCodec ==
    /\ EngineIdle /\ StoreIdle /\ ResolverIdle
    /\ MergeIdle /\ ListIdle /\ SigningIdle /\ CodecInit /\ LateIdle

SpecCodec == InitCodec /\ [][CodecNext]_vars

PostNext ==
    \/ StoreOnchain
    \/ StoreDatabase
    \/ PostDirectly
    \/ PostValidate
    \/ PostUpsert
    \/ PostInsert
    \/ PostFails
    \/ FetchOffchain

InitPost ==
    /\ EngineIdle /\ StoreIdle /\ ResolverIdle
    /\ MergeIdle /\ ListIdle /\ SigningIdle /\ CodecIdle /\ PostInit
    /\ AfterPostIdle

SpecPost == InitPost /\ [][PostNext]_vars

FetchNext ==
    \/ TargetChanges
    \/ Refresh
    \/ ResolveOnchain
    \/ ResolveOffchain
    \/ FetchFails

InitFetch ==
    /\ EngineIdle /\ StoreIdle /\ ResolverIdle
    /\ MergeIdle /\ ListIdle /\ SigningIdle /\ CodecIdle /\ PostIdle
    /\ FetchInit /\ AfterFetchIdle

SpecFetch == InitFetch /\ [][FetchNext]_vars

\* The creation flow by itself.
CreationNext ==
    \/ Connect
    \/ Disconnect
    \/ AccountChanges
    \/ SubmitApprover
    \/ SignStarts
    \/ SignInitiatorSettles
    \/ SignApproverSettles
    \/ SignFails
    \/ SetStorageMethod
    \/ WriteContract
    \/ TransactionConfirms
    \/ TransactionFails
    \/ StoreStarts
    \/ StoreSettles
    \/ StoreFails
    \/ Reset

InitFlow ==
    /\ EngineIdle /\ StoreIdle /\ ResolverIdle
    /\ MergeIdle /\ ListIdle /\ SigningIdle /\ CodecIdle /\ PostIdle
    /\ FetchIdle /\ FlowInit /\ RevokeIdle

SpecCreation == InitFlow /\ [][CreationNext]_vars

\* The creation flow beside the Read tab and its revoke button.
FlowNext ==
    \/ CreationNext
    \/ SelectAssociation
    \/ InitiateRevoke

SpecFlow == InitFlow /\ [][FlowNext]_vars

RevokeNext ==
    \/ TimePasses
    \/ RevokeStarts
    \/ RevokeSigned
    \/ RevokeRejected
    \/ PATCH
    \/ RevokeSettles
    \/ OtherPartyRevokes
    \/ WriteRevocation
    \/ RevocationFails
    \/ RevocationConfirms
    \/ ConfirmationEffect
    \/ Reset

InitRevoke ==
    /\ EngineIdle /\ StoreInit /\ ResolverIdle
    /\ MergeIdle /\ ListIdle /\ SigningIdle /\ CodecIdle /\ PostIdle
    /\ FetchIdle /\ RevokeInit

SpecRevoke == InitRevoke /\ [][RevokeNext]_vars

----------------------------------------------------------------------------
(* What the five checks of the engine mean, stated on the record, the      *)
(* snapshot `now` and the chain's answers, independently of the steps.     *)

Done == pc \in {"returned", "threw"}

ValidAtHolds    == now >= aar.validAt
ValidUntilHolds == aar.validUntil = 0 \/ now < aar.validUntil
RevokedAtHolds  == sar.revokedAt = 0 \/ now < sar.revokedAt
TimestampsHold  == ValidAtHolds /\ ValidUntilHolds /\ RevokedAtHolds

\* The value of a hex digit, in either case.
HexValue(c) ==
    CASE c = "0" -> 0 [] c = "1" -> 1 [] c = "2" -> 2 [] c = "3" -> 3
      [] c = "4" -> 4 [] c = "5" -> 5 [] c = "6" -> 6 [] c = "7" -> 7
      [] c = "8" -> 8 [] c = "9" -> 9
      [] c \in {"a", "A"} -> 10 [] c \in {"b", "B"} -> 11
      [] c \in {"c", "C"} -> 12 [] c \in {"d", "D"} -> 13
      [] c \in {"e", "E"} -> 14 [] c \in {"f", "F"} -> 15

\* The bytes a hex string '0x...' denotes.
BytesOf(s) ==
    [i \in 1..((Len(s) - 2) \div 2) |->
        16 * HexValue(s[2 * i + 1]) + HexValue(s[2 * i + 2])]

\* The 32 bytes 0x64 0x92 ... 0x64 0x92.
MagicBytes == [i \in 1..32 |-> IF i % 2 = 1 THEN 100 ELSE 146]

\* The signature's last 32 bytes are the magic suffix.
WrapperTagged(s) ==
    LET b == BytesOf(s)
    IN /\ Len(b) >= 32
       /\ SubSeq(b, Len(b) - 31, Len(b)) = MagicBytes

\* The signatures of the engine's records that carry the wrapper.
TaggedSignatures == {sig \in Signatures : WrapperTagged(sig.hex)}

\* Party p's signature verifies under the verifier its key type selects.
Verifies(p) ==
    LET sig     == signatureOf(sar, p)
        kt      == keyTypeOf(sar, p)
        r       == resp[p]
        hasCode == r.getCode = "code"
        wrapped == sig \in TaggedSignatures
    IN CASE kt \in {K1, DELEGATED} -> sig.k1
         [] kt = ERC1271 -> publicClient /\ r.isValidSignature = "magic"
         [] kt = ERC6492 ->
              /\ publicClient
              /\ \/ hasCode /\ ~wrapped /\ r.isValidSignature = "magic"
                 \/ r.isValidSig = "true"
                 \/ /\ r.isValidSig \in {"revert", "garbage"}
                    /\ wrapped /\ sig.decodes /\ hasCode
                    /\ r.innerIsValidSignature = "magic"
         [] OTHER -> FALSE

SignatureHolds(p) == signatureOf(sar, p) = EmptySig \/ Verifies(p)

ReturnedValid == pc = "returned" /\ result = Valid
ReturnedWith(reason) ==
    pc = "returned" /\ ~result.valid /\ Head(result.error) = reason

\* The log entries that belong to party p's signature check.
EventsOf(p) == {i \in 1..Len(log) : log[i][1] # "check" /\ log[i][2] = p}
\* The chain queries among them.
QueriesOf(p) == {i \in EventsOf(p) : log[i][1] # "verifySignature"}

\* The place of a log entry in the order of the five checks.
Rank(e) ==
    IF e[1] = "check"
    THEN CASE e[2] = "validAt" -> 1 [] e[2] = "validUntil" -> 2 [] OTHER -> 3
    ELSE IF e[2] = "initiator" THEN 4 ELSE 5

\* The checks that fail, by number.
Failing ==
    {i \in 1..5 :
        \/ i = 1 /\ ~ValidAtHolds
        \/ i = 2 /\ ~ValidUntilHolds
        \/ i = 3 /\ ~RevokedAtHolds
        \/ i = 4 /\ ~SignatureHolds("initiator")
        \/ i = 5 /\ ~SignatureHolds("approver")}

ReasonOfCheck(i) ==
    CASE i = 1 -> "Association not yet valid"
      [] i = 2 -> "Association has expired"
      [] i = 3 -> "Association is revoked"
      [] i = 4 -> "Invalid initiator signature"
      [] OTHER -> "Invalid approver signature"

Lowest(S) == CHOOSE i \in S : \A j \in S : i <= j

----------------------------------------------------------------------------
(* Claims *)

\* C1: a finished validateAssociation call has returned {valid: true} exactly
\* when all five checks hold for the call's single `now`: now >= validAt;
\* validUntil = 0 or now < validUntil; revokedAt = 0 or now < revokedAt; each
\* signature is empty or verifies under the verifier its key type selects.
C1_ValidIffFiveChecks ==
    Done =>
        (ReturnedValid <=>
            /\ TimestampsHold
            /\ SignatureHolds("initiator")
            /\ SignatureHolds("approver"))

\* C1 witness: a call at now = validAt, not revoked, not expired, with both
\* signatures present and verified through a chain query, returned valid.
C1_Witness ==
    /\ ReturnedValid
    /\ now = aar.validAt /\ sar.revokedAt = 0
    /\ sar.initiatorSignature # EmptySig /\ sar.approverSignature # EmptySig
    /\ sar.initiatorKeyType = K1 /\ sar.approverKeyType = ERC6492

\* C2: the checks are evaluated in the order validAt, validUntil, revokedAt,
\* initiator signature, approver signature, and evaluation stops at the first
\* failure: the log is ordered by check number, the reason returned is that of
\* the lowest-numbered failing check, a signature is verified (and the chain
\* queried) only when the three timestamp checks have passed, and the
\* approver's only when the initiator's check has passed as well.
C2_OrderedShortCircuit ==
    /\ \A i \in 1..(Len(log) - 1) :
          /\ Rank(log[i]) <= Rank(log[i + 1])
          /\ log[i][1] = "check" => Rank(log[i]) < Rank(log[i + 1])
    /\ (pc = "returned" /\ ~result.valid) =>
          LET failing == Failing
          IN /\ failing # {}
             /\ Head(result.error) = ReasonOfCheck(Lowest(failing))
             /\ Len(log) > 0 /\ Rank(log[Len(log)]) <= Lowest(failing)
    /\ \A p \in Parties :
          (EventsOf(p) # {} \/ resp[p] # NoAnswers) => TimestampsHold
    /\ (EventsOf("approver") # {} \/ resp["approver"] # NoAnswers) =>
          SignatureHolds("initiator")

\* C2 witness: a record both expired and revoked, with both signatures bad,
\* reported Expired after exactly two checks.
C2_Witness ==
    /\ ReturnedWith("Association has expired")
    /\ ~RevokedAtHolds
    /\ sar.initiatorSignature = PlainBadSig /\ sar.approverSignature = PlainBadSig
    /\ log = <<(<<"check", "validAt">>), (<<"check", "validUntil">>)>>

\* C3: once the validAt check has been evaluated with now < validAt, the call
\* has returned valid = false with the not-yet-valid reason, whatever
\* validUntil, revokedAt, the key types and the signatures are.
C3_NotYetValid ==
    (now < aar.validAt /\ pc # "validAt") =>
        ReturnedWith("Association not yet valid")

\* C3 witness: now = validAt - 1 on a record that is also expired and revoked
\* and carries two signatures.
C3_Witness ==
    /\ ReturnedWith("Association not yet valid")
    /\ now = aar.validAt - 1
    /\ aar.validUntil # 0 /\ now >= aar.validUntil
    /\ sar.revokedAt # 0
    /\ sar.initiatorSignature = PlainGoodSig /\ sar.approverSignature = WrappedSig

\* C4: validUntil is an exclusive upper bound and 0 means unbounded: with
\* now >= validAt, validUntil # 0 and now >= validUntil the call returns
\* valid = false with the expired reason; a record with validUntil = 0 is
\* never reported expired.
C4_ValidUntilExclusive ==
    /\ (/\ now >= aar.validAt
        /\ aar.validUntil # 0 /\ now >= aar.validUntil
        /\ pc \notin {"validAt", "validUntil"})
          => ReturnedWith("Association has expired")
    /\ ReturnedWith("Association has expired") =>
          aar.validUntil # 0 /\ now >= aar.validUntil

\* C4 witness: the boundary now = validUntil is reported expired.
C4_Witness ==
    /\ ReturnedWith("Association has expired")
    /\ now = aar.validUntil

\* C5: revokedAt is an exclusive upper bound of the same shape: when the
\* validAt and validUntil checks pass, revokedAt # 0 and now >= revokedAt give
\* valid = false with the revoked reason; revokedAt = 0 or a revocation dated
\* after now is never reported revoked.
C5_RevokedAtExclusive ==
    /\ (/\ ValidAtHolds /\ ValidUntilHolds
        /\ sar.revokedAt # 0 /\ now >= sar.revokedAt
        /\ pc \notin {"validAt", "validUntil", "revokedAt"})
          => ReturnedWith("Association is revoked")
    /\ ReturnedWith("Association is revoked") =>
          sar.revokedAt # 0 /\ now >= sar.revokedAt

\* C5 witness: a revocation dated in the future does not stop the record from
\* validating.
C5_Witness ==
    /\ ReturnedValid
    /\ sar.revokedAt # 0 /\ now < sar.revokedAt
    /\ sar.initiatorSignature # EmptySig

\* C6: with the three timestamp checks passed, an empty signature is skipped:
\* a record with no signature is valid, a record with exactly one signature is
\* valid iff that signature verifies, and for a party with an empty signature
\* verifySignature is not called (its key type is never read) and no chain
\* query is issued.
C6_EmptySignatureSkipped ==
    /\ (Done /\ TimestampsHold) =>
          \A p \in Parties :
              signatureOf(sar, CHOOSE q \in Parties : q # p) = EmptySig
                  => (ReturnedValid <=> SignatureHolds(p))
    /\ \A p \in Parties :
          signatureOf(sar, p) = EmptySig
              => EventsOf(p) = {} /\ resp[p] = NoAnswers

\* C6 witness: only the approver signed; the initiator's empty signature
\* carries a key type that would otherwise need the chain.
C6_Witness ==
    /\ ReturnedValid
    /\ sar.initiatorSignature = EmptySig /\ sar.initiatorKeyType = ERC1271
    /\ sar.approverSignature = PlainGoodSig /\ sar.approverKeyType = K1

\* C7: no verification-path failure propagates as an exception out of
\* validateAssociation: whatever the chain answers, the call never throws.
C7_NeverThrows == pc # "threw"

----------------------------------------------------------------------------
(* Claims about the off-chain store *)

\* The step in which the PATCH handler serves the request it holds.
Serves == handler = "handling" /\ handler' = "responded"

\* The request carries a plain-key signature by its claimed signer over its
\* message.
Authentic(req) ==
    /\ req.signature # NoSignature
    /\ req.signature.by = toLowerCase(req.signer)
    /\ req.signature.over = req.message

\* The claimed signer is the initiator or the approver of row i.
SignerIsPartyOf(req, i) ==
    toLowerCase(req.signer) \in {db[i].initiator_address, db[i].approver_address}

\* The request is a correctly authenticated revocation of its row at t.
Authorized(req, t) ==
    /\ req.id \in Ids
    /\ Authentic(req)
    /\ SignerIsPartyOf(req, req.id)
    /\ req.message = RevokeMessage(req.id, t)
    /\ req.revokedAt \in {undefined, Some(t)}

\* C8: the stored revocation timestamp is non-increasing over a record's
\* lifetime: once revoked_at is a non-zero T it only ever changes to a newT
\* with 0 < newT < T; it never increases and never returns to zero or NULL.
C8_RevokedAtOnlyDecreases ==
    [][\A i \in Ids :
          (db[i].revoked_at # NULL /\ db[i].revoked_at[1] # 0) =>
              \/ db'[i].revoked_at = db[i].revoked_at
              \/ /\ db'[i].revoked_at # NULL
                 /\ 0 < db'[i].revoked_at[1]
                 /\ db'[i].revoked_at[1] < db[i].revoked_at[1]]_vars

\* C9: revoked_at of a row changes only when a PATCH request is served whose
\* signature is a valid plain-key signature by the claimed signer, whose
\* signer is (case-insensitively) the initiator or approver of that row, and
\* whose message is exactly "Revoke association <id> at timestamp <t>" with
\* <id> the row updated and <t> the timestamp applied; a request failing one
\* of these is answered with an error and changes no row.
C9_RevocationAuthenticated ==
    [][/\ db' # db => Serves
       /\ Serves =>
            /\ \A i \in Ids :
                 db'[i].revoked_at # db[i].revoked_at =>
                    /\ request.id = i
                    /\ Authentic(request)
                    /\ SignerIsPartyOf(request, i)
                    /\ db'[i].revoked_at # NULL
                    /\ request.message = RevokeMessage(i, db'[i].revoked_at[1])
            /\ (~ \E t \in Times : Authorized(request, t)) =>
                    /\ ~response'.success
                    /\ response'.status >= 400
                    /\ db' = db]_vars

\* C9 witness: the approver of row 2, naming itself in mixed case, has revoked
\* the row at timestamp 1.
C9_Witness ==
    /\ handler = "responded"
    /\ response.success
    /\ request.id = 2 /\ request.signer = "0xAA"
    /\ request.message = RevokeMessage(2, 1)
    /\ db[2].revoked_at = Some(1)

\* C10: a correctly authenticated PATCH revocation whose proposed timestamp is
\* not earlier than the row's existing non-zero revoked_at is rejected: the
\* response is a failure and revoked_at is left unchanged.
C10_LaterRevocationRejected ==
    [][(/\ Serves
        /\ \E t \in Times :
             /\ Authorized(request, t)
             /\ db[request.id].revoked_at # NULL
             /\ db[request.id].revoked_at[1] # 0
             /\ t >= db[request.id].revoked_at[1])
          => (~response'.success /\ db' = db)]_vars

----------------------------------------------------------------------------
(* Claims about the signature verifiers *)

\* verifySignature was called for party p and returned.
Called(p) == isValid[p] # undefined

\* What it returned.
Returned(p) == isValid[p][1]

\* The log entries of the given kind that belong to party p.
Entries(kind, p) == {i \in 1..Len(log) : log[i][1] = kind /\ log[i][2] = p}

\* Party p's signature is being, or has been, verified by
\* verifyErc6492Signature with a client, and getCode has answered c.
Erc6492With(p, c) ==
    /\ populated(signatureOf(sar, p))
    /\ keyTypeOf(sar, p) = ERC6492
    /\ publicClient
    /\ resp[p].getCode = c

\* C13: verifyErc1271Signature returns true iff the isValidSignature call on
\* the signer returns exactly the magic value 0x1626ba7e; another value, a
\* revert, no code at the address and undecodable return data all yield
\* false, and every answer yields a boolean, never an error.  This holds at
\* each of its three call sites (key type ERC1271, ERC-6492 path (a), ERC-6492
\* path (c)).
C13_MagicValueOnly ==
    \A p \in Parties :
        \A q \in {"isValidSignature", "innerIsValidSignature"} :
            resp[p][q] # Unasked =>
                /\ Called(p)
                /\ Returned(p) <=> resp[p][q] = "magic"

\* C13 witness: two ERC1271 signatures; the initiator's contract answered the
\* magic value, the approver's address has no code, and the verdict is
\* invalid approver signature.
C13_Witness ==
    /\ ReturnedWith("Invalid approver signature")
    /\ sar.initiatorKeyType = ERC1271 /\ sar.approverKeyType = ERC1271
    /\ resp["initiator"].isValidSignature = "magic"
    /\ resp["approver"].isValidSignature = "nocode"
    /\ isValid = [initiator |-> Some(TRUE), approver |-> Some(FALSE)]

\* C14: ERC-6492 path (a): when the signer already has code and the signature
\* is not wrapper-tagged, verifyErc6492Signature makes no call to the
\* universal validator, and its result is that of the ERC-1271 verifier asked
\* about the record's own signature.
C14_DeployedUnwrapped ==
    \A p \in Parties :
        (Erc6492With(p, "code") /\ signatureOf(sar, p) \notin TaggedSignatures) =>
            /\ Entries("call", p) = {}
            /\ resp[p].isValidSig = Unasked
            /\ resp[p].innerIsValidSignature = Unasked
            /\ Called(p) =>
                 /\ resp[p].isValidSignature # Unasked
                 /\ Returned(p) <=> resp[p].isValidSignature = "magic"
                 /\ \E i \in Entries("readContract", p) : log[i][3] = "isValidSignature"

\* C14 witness: an unwrapped ERC6492-typed signature of a deployed signer was
\* accepted on the contract's magic value.
C14_Witness ==
    /\ Erc6492With("initiator", "code")
    /\ sar.initiatorSignature = PlainBadSig
    /\ isValid["initiator"] = Some(TRUE)
    /\ resp["initiator"].isValidSignature = "magic"

Unsupported(p) ==
    /\ signatureOf(sar, p) # EmptySig
    /\ keyTypeOf(sar, p) \notin {K1, DELEGATED, ERC1271, ERC6492}

\* C17: verification for the other key types fails closed: a finished call on
\* a record whose timestamp checks pass and that carries a non-empty
\* signature with such a tag has returned valid = false, never true and
\* never an exception, whatever plain-key recovery would say of the bytes.
C17_UnsupportedFailsClosed ==
    (Done /\ TimestampsHold /\ \E p \in Parties : Unsupported(p)) =>
        (pc = "returned" /\ ~result.valid)

\* C18: a non-empty signature with key type ERC1271 or ERC6492 and no chain
\* client: verifySignature returns false without asking the chain, the
\* finished call has returned valid = false, and nothing is thrown.
C18_NoClientFailsClosed ==
    ~publicClient =>
        /\ pc # "threw"
        /\ \A p \in Parties :
             (/\ signatureOf(sar, p) # EmptySig
              /\ keyTypeOf(sar, p) \in {ERC1271, ERC6492}) =>
                /\ resp[p] = NoAnswers
                /\ QueriesOf(p) = {}
                /\ Called(p) => ~Returned(p)
                /\ (Done /\ TimestampsHold) => (pc = "returned" /\ ~result.valid)

\* C18 witness: without a client, a good plain-key initiator signature and a
\* wrapped ERC6492 approver signature give invalid approver signature.
C18_Witness ==
    /\ ~publicClient
    /\ sar.initiatorKeyType = K1 /\ sar.initiatorSignature = PlainGoodSig
    /\ sar.approverKeyType = ERC6492 /\ sar.approverSignature = WrappedSig
    /\ ReturnedWith("Invalid approver signature")
    /\ log = <<(<<"check", "validAt">>), (<<"check", "validUntil">>),
               (<<"check", "revokedAt">>),
               (<<"verifySignature", "initiator", K1>>),
               (<<"verifySignature", "approver", ERC6492>>)>>

\* C25: DELEGATED is an alias of K1 for verification.  Under either tag
\* verifySignature returns what recover-and-compare gives for the signature,
\* the same for both, and asks the chain nothing, whether or not a client
\* was supplied.
C25_DelegatedIsK1 ==
    \A p \in Parties :
        keyTypeOf(sar, p) \in {DELEGATED, K1} =>
            /\ resp[p] = NoAnswers
            /\ QueriesOf(p) = {}
            /\ Called(p) => Returned(p) = signatureOf(sar, p).k1
            /\ (pc = "returned" /\ populated(signatureOf(sar, p))
                    /\ ~signatureOf(sar, p).k1) => ~result.valid

\* C25 witness: without a client, a good signature tagged DELEGATED and a
\* good one tagged K1 both verified, and the record is valid.
C25_Witness ==
    /\ ~publicClient
    /\ sar.initiatorKeyType = DELEGATED /\ sar.initiatorSignature = PlainGoodSig
    /\ sar.approverKeyType = K1 /\ sar.approverSignature = PlainGoodSig
    /\ isValid = [q \in Parties |-> Some(TRUE)]
    /\ ReturnedValid

\* The reason codes of the taxonomy, as fixed values.
ReasonCodes ==
    {<<"NotYetValid">>, <<"Expired">>, <<"Revoked">>,
     <<"InvalidInitiatorSignature">>, <<"InvalidApproverSignature">>,
     <<"UnsupportedKeyType">>, <<"ChainQueryUnavailable">>}

\* The fixed code a returned error stands for, by its leading text.
CodeOf(error) ==
    CASE Head(error) = "Association not yet valid" -> <<"NotYetValid">>
      [] Head(error) = "Association has expired" -> <<"Expired">>
      [] Head(error) = "Association is revoked" -> <<"Revoked">>
      [] Head(error) = "Invalid initiator signature" -> <<"InvalidInitiatorSignature">>
      [] Head(error) = "Invalid approver signature" -> <<"InvalidApproverSignature">>
      [] OTHER -> <<"Unknown">>

\* C19 (as stated): a returned verdict carries a reason iff valid is false,
\* and the reason is one of the fixed codes, the same whatever the record's
\* field values and the current time: the reason returned is nothing but its
\* code.
C19_StableReasonCodes ==
    pc = "returned" =>
        /\ result.valid <=> result.error = NoError
        /\ ~result.valid =>
             /\ CodeOf(result.error) \in ReasonCodes
             /\ Len(result.error) = 1

\* C19 (amended): a returned verdict carries an error iff valid is false, and
\* the error is one of five messages: "Association not yet valid (validAt:
\* V, now: N)", "Association has expired (validUntil: U, now: N)",
\* "Association is revoked (revokedAt: R, now: N)", which embed the record's
\* field and the call's now, or the fixed "Invalid initiator signature" /
\* "Invalid approver signature", which also stand for an unsupported key type
\* and for a missing chain client.
C19_ErrorIffInvalid ==
    pc = "returned" =>
        /\ result.valid <=> result.error = NoError
        /\ ~result.valid =>
             result.error \in
                {<<"Association not yet valid", aar.validAt, now>>,
                 <<"Association has expired", aar.validUntil, now>>,
                 <<"Association is revoked", sar.revokedAt, now>>,
                 <<"Invalid initiator signature">>,
                 <<"Invalid approver signature">>}
        /\ \A p \in Parties :
             (/\ Called(p) /\ ~Returned(p)
              /\ \/ Unsupported(p)
                 \/ ~publicClient /\ keyTypeOf(sar, p) \in {ERC1271, ERC6492}) =>
                result.error = <<"Invalid " \o p \o " signature">>

\* C19 witness: a not-yet-valid verdict whose error embeds validAt = 2 and
\* now = 1.
C19_Witness ==
    /\ pc = "returned"
    /\ result = [valid |-> FALSE,
                 error |-> <<"Association not yet valid", 2, 1>>]

\* C20: all timestamp comparisons of a call use the one `now` read when the
\* call started: `now` never runs ahead of the clock, and whatever the clock
\* has advanced to since, a timestamp verdict reports that `now` and follows
\* from the three checks evaluated at it, and a signature verdict or a valid
\* one is given only for a record all three checks pass at it.
C20_SingleNow ==
    /\ pc # "idle" => (now <= clock /\ now \in Instants)
    /\ pc = "returned" =>
         /\ ReturnedWith("Association not yet valid") =>
              ~ValidAtHolds /\ result.error[3] = now
         /\ ReturnedWith("Association has expired") =>
              ValidAtHolds /\ ~ValidUntilHolds /\ result.error[3] = now
         /\ ReturnedWith("Association is revoked") =>
              ValidAtHolds /\ ValidUntilHolds /\ ~RevokedAtHolds
                /\ result.error[3] = now
         /\ (result.valid \/ Len(result.error) = 1) => TimestampsHold

\* C20 witness: the clock moved past validUntil and revokedAt while the
\* initiator's contract was being asked; the record, in its window at `now`,
\* was returned valid.
C20_Witness ==
    /\ ReturnedValid
    /\ now < clock
    /\ aar.validUntil = clock /\ sar.revokedAt = clock
    /\ resp["initiator"].isValidSignature = "magic"

----------------------------------------------------------------------------
(* Claims about the key-type resolver and the wrapper test *)

\* The signature handed to the resolver carries the wrapper.
Tagged == sigHex # undefined /\ WrapperTagged(sigHex)

\* The resolver can ask the chain for the signer's code.
CanQuery == wallet.address # undefined /\ wallet.publicClient

\* C11 (as stated): the resolver returns ERC6492 for a wrapper-tagged
\* signature, whatever the signer's code and without the code query;
\* otherwise ERC1271 for a signer with deployed code; otherwise K1; and never
\* another key type.
C11_StrictPriority ==
    /\ Tagged => bytecode = Unasked /\ kpc # "getCode"
    /\ kpc = "returned" =>
          keyType = Some(IF Tagged THEN ERC6492
                         ELSE IF wallet.deployed THEN ERC1271 ELSE K1)

\* C11 (amended): the resolver returns ERC6492 for a wrapper-tagged
\* signature, whatever the signer's code and without the code query;
\* otherwise ERC1271 when the code query can be made (address and client are
\* there), succeeds and reports code; otherwise K1, a failed or impossible
\* query counting as no code; and never another key type.
C11_PriorityAsQueried ==
    /\ Tagged => bytecode = Unasked /\ kpc # "getCode"
    /\ bytecode # Unasked => CanQuery /\ ~Tagged
    /\ kpc = "returned" =>
          /\ keyType = Some(IF Tagged THEN ERC6492
                            ELSE IF bytecode = "code" THEN ERC1271 ELSE K1)
          /\ (~Tagged /\ CanQuery) => bytecode # Unasked
          /\ bytecode = "code" => wallet.deployed

\* C11 witness: a wrapper-tagged signature of a signer that has deployed
\* code and can be queried is resolved to ERC6492.
C11_Witness ==
    /\ kpc = "returned" /\ keyType = Some(ERC6492)
    /\ Tagged /\ CanQuery /\ wallet.deployed

\* C12: isErc6492Signature(sig) is true iff the last 32 bytes of sig are the
\* magic suffix 0x6492...6492; a signature shorter than 32 bytes is not
\* wrapper-tagged; the answer is the same whatever the chain holds, and it is
\* the answer the resolver acts on.
C12_MagicSuffix ==
    sigHex # undefined =>
        /\ isErc6492Signature(sigHex) <=> WrapperTagged(sigHex)
        /\ Len(BytesOf(sigHex)) < 32 => ~isErc6492Signature(sigHex)
        /\ kpc = "returned" =>
              (keyType = Some(ERC6492) <=> WrapperTagged(sigHex))

\* C12 witness: a signature that is exactly the 32 magic bytes was taken as
\* wrapper-tagged although the signer has no code.
C12_Witness ==
    /\ sigHex = ERC6492_MAGIC_SUFFIX
    /\ kpc = "returned" /\ keyType = Some(ERC6492)
    /\ CanQuery /\ ~wallet.deployed

\* C24: the resolver never throws because of the code-presence check.  For
\* a signature that is not wrapper-tagged, a code query that fails, or that
\* cannot be made for want of an address or a client, counts as no code: the
\* call returns, and returns K1.
C24_CodeQueryFailureIsNoCode ==
    /\ kpc \in {"start", "getCode", "returned"}
    /\ (kpc = "returned" /\ ~Tagged /\ (bytecode = "fail" \/ ~CanQuery))
            => keyType = Some(K1)
    /\ bytecode = "fail" => kpc = "returned"

\* C24 witness: the code query of a signer that has deployed code was made
\* and failed, and the resolver returned K1.
C24_Witness ==
    /\ kpc = "returned" /\ keyType = Some(K1)
    /\ bytecode = "fail" /\ wallet.deployed /\ ~Tagged /\ sigHex # undefined

----------------------------------------------------------------------------
(* Claims about the reconciliation layer, checked under SpecMerge.         *)

\* The account pair of an entry, unordered and case-insensitive.
AccountPair(assoc) ==
    {hexToLowerCase(assoc.initiator), hexToLowerCase(assoc.approver)}

EntriesOf(list) == {list[i] : i \in 1..Len(list)}

Merged == mpc[1] = "done"

\* C21: the merged set holds exactly one entry for each unordered,
\* case-insensitive account pair that occurs in either source; that entry is
\* one of the input entries, whole; and when the on-chain source has an entry
\* for the pair, the merged entry is one of the on-chain entries.
C21_OnePerPairOnchainWins ==
    Merged =>
        LET inputs == EntriesOf(onchainAssociations)
                        \cup EntriesOf(offchainAssociations)
            merged == mergedAssociations
        IN /\ \A i, j \in 1..Len(merged) :
                AccountPair(merged[i]) = AccountPair(merged[j]) => i = j
           /\ {AccountPair(e) : e \in inputs}
                = {AccountPair(e) : e \in EntriesOf(merged)}
           /\ EntriesOf(merged) \subseteq inputs
           /\ \A e \in EntriesOf(merged) :
                (\E o \in EntriesOf(onchainAssociations) :
                    AccountPair(o) = AccountPair(e))
                => e \in EntriesOf(onchainAssociations)

\* Both sources hold the same pair, the off-chain one with the parties
\* swapped and in upper case, and the off-chain source holds a pair of its
\* own: the merge kept the on-chain entry and the other pair.
C21_Witness ==
    /\ Merged
    /\ \E o \in EntriesOf(onchainAssociations),
          f \in EntriesOf(offchainAssociations) :
        /\ AccountPair(o) = AccountPair(f)
        /\ o.initiator # f.initiator
        /\ o \in EntriesOf(mergedAssociations)
        /\ f \notin EntriesOf(mergedAssociations)
    /\ \E f \in EntriesOf(offchainAssociations) :
        /\ f \in EntriesOf(mergedAssociations)
        /\ \A o \in EntriesOf(onchainAssociations) :
            AccountPair(o) # AccountPair(f)

----------------------------------------------------------------------------
(* Claims about the validation of a source's list, checked under SpecList. *)

\* The call of index i is over: it returned a verdict or threw.
Over(i) == calls[i].pc \in {"returned", "threw"}

\* C22: a chain-query failure while one record is validated degrades that
\* record to an invalid signature: no call throws, the fetch never ends in
\* its catch block, and the list that is set holds every record with the
\* verdict of its own call.
C22_FailureDegradesOneRecord ==
    /\ \A i \in DOMAIN calls : calls[i].pc # "threw"
    /\ fpc # "caught"
    /\ fpc = "set" =>
        \A i \in Indexes :
            /\ onchainAssociations[i].sar = sars[i].sar
            /\ onchainAssociations[i].isValid = calls[i].out[1].valid

\* validateAssociation on record r alone, under chain state ch with the
\* clock reading n: the call is resumed until nothing is awaited.
RECURSIVE RunAlone(_, _, _)
RunAlone(c, r, ch) ==
    IF c.vpc = "none" THEN c ELSE RunAlone(Resumed(c, r, ch), r, ch)

----------------------------------------------------------------------------
(* Claims about signing and verifying across chains, under SpecSigning.    *)

\* The pairs (chain signed on, chain verified through) verified so far.
VerifiedPairs == {x \in Chains \X Chains : verifiedOn[x] # undefined}

----------------------------------------------------------------------------
(* Claims about the address codec and the ERC-6492 wrapper                  *)

\* No upper-case hex digit occurs in s.
LowerCased(s) == \A i \in 1..Len(s) : s[i] \notin {"A", "B", "C", "D", "E", "F"}

\* extractAddress has returned: its input and its output.
Extracted ==
    cpc = "done" /\ codecArg.fn \in {"extractAddress", "addressToErc7930"}

\* C27: extractAddress returns, for an input of at least 20 bytes, the
\* address whose bytes are the input's last 20 bytes, whatever precedes
\* them; for a shorter input it returns the input's own bytes and raises
\* nothing; in both cases the result has no upper-case digit.
C27_LastTwentyBytesLowerCased ==
    Extracted =>
        LET in  == BytesOf(codecMid)
            out == codecRet[1]
        IN /\ codecRet # undefined
           /\ LowerCased(out)
           /\ Len(in) >= 20 =>
                  /\ Len(out) = 42
                  /\ BytesOf(out) = SubSeq(in, Len(in) - 19, Len(in))
           /\ Len(in) < 20 =>
                  /\ Len(out) = Len(codecMid)
                  /\ BytesOf(out) = in

\* Witness: an upper-case address behind a version/chain prefix came back
\* as the lower-case address, and a 19-byte input came back whole.
C27_Witness ==
    /\ Extracted
    /\ \/ /\ Len(BytesOf(codecMid)) > 20
          /\ ~LowerCased(codecMid)
          /\ codecRet = Some(AddrA)
       \/ /\ Len(BytesOf(codecMid)) = 19
          /\ ~LowerCased(codecMid)

\* C28: for every address and chain id, extractAddress applied to
\* addressToErc7930(address, chainId) returns the address, compared without
\* regard to the case of its digits.
C28_CodecRoundTrip ==
    (cpc = "done" /\ codecArg.fn = "addressToErc7930") =>
        /\ codecRet # undefined
        /\ Len(codecRet[1]) = Len(codecArg.address)
        /\ BytesOf(codecRet[1]) = BytesOf(codecArg.address)

\* Witness: an address in mixed case went through the binary identifier of
\* a chain whose reference takes three bytes and came back in lower case.
C28_Witness ==
    /\ cpc = "done" /\ codecArg.fn = "addressToErc7930"
    /\ codecArg.chainId > 65535
    /\ Len(BytesOf(codecMid)) = 29
    /\ codecRet # Some(codecArg.address)
    /\ BytesOf(codecRet[1]) = BytesOf(codecArg.address)

\* The wrapper was built from its three parts and taken apart again.
Rewrapped == cpc = "done" /\ codecArg.fn = "wrapErc6492Signature"

\* The record r holds the bytes of the three parts the wrapper was built of.
SameParts(r) ==
    /\ BytesOf(r.factory) = BytesOf(codecArg.factory)
    /\ BytesOf(r.factoryCalldata) = BytesOf(codecArg.factoryCalldata)
    /\ BytesOf(r.originalSignature) = BytesOf(codecArg.originalSignature)

\* C29: what wrapErc6492Signature(factory, calldata, sig) returns is
\* recognised by isErc6492Signature, and unwrapErc6492Signature of it
\* returns the factory, the calldata and the signature it was built of;
\* unwrapErc6492Signature of a signature whose last 32 bytes are not the
\* magic suffix returns null.
C29_WrapperRoundTrip ==
    /\ (codecArg.fn = "wrapErc6492Signature"
            /\ cpc \in {"unwrapErc6492Signature", "done"}) =>
           isErc6492Signature(codecMid)
    /\ Rewrapped =>
           /\ codecRet # undefined
           /\ codecRet[1] # NULL
           /\ SameParts(codecRet[1][1])
    /\ (cpc = "done" /\ codecArg.fn = "unwrapErc6492Signature"
            /\ ~WrapperTagged(codecArg.signature)) =>
           codecRet = Some(NULL)

\* Witness: calldata of a word and a byte and an inner signature that ends
\* in the magic suffix itself were wrapped and came back.
C29_Witness ==
    /\ Rewrapped
    /\ Len(BytesOf(codecArg.factoryCalldata)) = 33
    /\ WrapperTagged(codecArg.originalSignature)
    /\ codecRet # Some(NULL)
    /\ SameParts(codecRet[1][1])

----------------------------------------------------------------------------
(* Claims about the width of the timestamps in the hash preimage            *)

\* The width of `uint40`, the type of validAt and validUntil in
\* ASSOCIATED_ACCOUNT_RECORD_TYPES.
Uint40Bits == 40

\* t shifted right by n bits.
RECURSIVE shiftRight(_, _)
shiftRight(t, n) == IF n = 0 THEN t ELSE shiftRight(t \div 2, n - 1)

\* t is less than 2^40.
FitsUint40(t) == shiftRight(t, Uint40Bits) = 0

\* C30: validateAssociation raises an error instead of returning a verdict
\* only for a record whose validAt or validUntil does not fit in 40 bits.
C30_OnlyRangeErrorsThrow ==
    pc = "threw" => ~(FitsUint40(aar.validAt) /\ FitsUint40(aar.validUntil))

----------------------------------------------------------------------------
(* Claims about storing a new association                                   *)

\* The number a string of digits denotes in the given base.
RECURSIVE ValueOf(_, _)
ValueOf(digits, base) ==
    IF digits = <<>> THEN 0
    ELSE base * ValueOf(SubSeq(digits, 1, Len(digits) - 1), base)
         + HexValue(digits[Len(digits)])

\* C33: whatever the hook's SAR holds as revokedAt, the struct handed to
\* storeAssociation and the body of the POST carry revokedAt 0, and the
\* AAR's fields, the key types and the signatures of the hook's records
\* with their values unchanged.
C33_StoredWithRevokedAtZero ==
    LET a == storageProps.aar
        l == storageProps.sar
        x == sent.args
    IN /\ (sent # NoBody /\ sent.by = "useAssociationStorage") =>
             /\ x.revokedAt = 0
             /\ Len(x.initiatorKeyType) = 6 /\ Len(x.approverKeyType) = 6
             /\ ValueOf(SubSeq(x.initiatorKeyType, 3, 6), 16) = l.initiatorKeyType
             /\ ValueOf(SubSeq(x.approverKeyType, 3, 6), 16) = l.approverKeyType
             /\ x.initiatorSignature = l.initiatorSignature
             /\ x.approverSignature = l.approverSignature
             /\ x.record = a
       /\ (sent # NoBody /\ sent.by = "useDatabaseStorage") =>
             /\ ValueOf(x.sar.revokedAt, 10) = 0
             /\ x.sar.initiatorKeyType = l.initiatorKeyType
             /\ x.sar.approverKeyType = l.approverKeyType
             /\ x.sar.initiatorSignature = l.initiatorSignature
             /\ x.sar.approverSignature = l.approverSignature
             /\ x.aar.initiator = a.initiator /\ x.aar.approver = a.approver
             /\ ValueOf(x.aar.validAt, 10) = a.validAt
             /\ ValueOf(x.aar.validUntil, 10) = a.validUntil
             /\ x.aar.interfaceId = a.interfaceId /\ x.aar.data = a.data

\* Witness: a record whose local revokedAt is not 0, with an end and a
\* contract key type, was sent in the body of the POST.
C33_Witness ==
    /\ sent # NoBody /\ sent.by = "useDatabaseStorage"
    /\ storageProps.sar.revokedAt > MaxTime
    /\ storageProps.aar.validUntil # 0
    /\ storageProps.sar.initiatorKeyType = ERC6492
    /\ sent.args.sar.revokedAt = <<"0">>

\* The POST handler has a verdict for the record posted.
Validated == validationResult # undefined

\* A step of the handler writes only under a valid verdict, and the row
\* and the 200 response come together.
WritesFollowVerdict ==
    /\ (accountsTable' # accountsTable
           \/ associationsTable' # associationsTable) =>
          (Validated /\ validationResult[1].valid)
    /\ associationsTable' # associationsTable =>
          /\ Len(associationsTable') = Len(associationsTable) + 1
          /\ SubSeq(associationsTable', 1, Len(associationsTable))
                 = associationsTable
          /\ postResponse = undefined
          /\ postResponse' # undefined /\ postResponse'[1].status = 200
    /\ (postResponse' # postResponse /\ postResponse'[1].status = 200) =>
          associationsTable' # associationsTable

\* C34: the POST handler writes to the database only after
\* validateAssociation returned valid: a record that fails validation is
\* answered with status 400 and the validation error, with no write to
\* either table before or after; and the response with status 200 comes
\* with exactly one row appended, the row of the record posted.
C34_InsertOnlyAfterValid ==
    /\ [][WritesFollowVerdict]_vars
    /\ []((Validated /\ ~validationResult[1].valid) =>
            /\ postResponse # undefined
            /\ postResponse[1].status = 400
            /\ postResponse[1].error = validationResult[1].error)

\* Witness: a record with a bad initiator signature was answered with 400
\* and the tables, which held an earlier row, are as they were.
C34_Witness ==
    /\ spc = "responded"
    /\ postResponse # undefined /\ postResponse[1].status = 400
    /\ postResponse[1].error = InvalidSignature("initiator")
    /\ associationsTable = <<EarlierRow>>
    /\ Cardinality(accountsTable) = 2

\* validateAssociation as the Reconciliation Layer runs it, with the
\* client, on the record posted, at the instant of the POST.
Reconciled ==
    LET r == postedRecord(sent.args)
    IN RunAlone(Start(r, postNow), r, postChain)

\* C35: the POST handler finds a record valid if and only if
\* validateAssociation with chain-query access finds the same record valid
\* at the same instant.
C35_StoreAgreesWithReconciliation ==
    Validated =>
        (validationResult[1].valid
            <=> (Reconciled.pc = "returned" /\ Reconciled.out[1].valid))

\* An accepted POST has been read back.
ReadBack ==
    /\ spc = "fetched"
    /\ postResponse # undefined /\ postResponse[1].status = 200

\* C39: the record rebuilt from the row an accepted POST inserted has the
\* fields of the record submitted: identifiers, timestamps, interface id,
\* data, revokedAt, key types and signatures, and the two addresses are
\* the accounts of the identifiers.
C39_StoreReadRoundTrip ==
    ReadBack =>
        LET x == sent.args
            r == rebuilt[postResponse[1].associationId]
        IN /\ r.aar.initiator = x.aar.initiator
           /\ r.aar.approver = x.aar.approver
           /\ r.aar.validAt = ValueOf(x.aar.validAt, 10)
           /\ r.aar.validUntil = ValueOf(x.aar.validUntil, 10)
           /\ r.aar.interfaceId = x.aar.interfaceId
           /\ r.aar.data = x.aar.data
           /\ r.sar.revokedAt = ValueOf(x.sar.revokedAt, 10)
           /\ r.sar.initiatorKeyType = x.sar.initiatorKeyType
           /\ r.sar.approverKeyType = x.sar.approverKeyType
           /\ r.sar.initiatorSignature = x.sar.initiatorSignature
           /\ r.sar.approverSignature = x.sar.approverSignature
           /\ LET b == BytesOf(x.aar.initiator)
              IN BytesOf(r.initiatorAddress) = SubSeq(b, Len(b) - 19, Len(b))
           /\ LET b == BytesOf(x.aar.approver)
              IN BytesOf(r.approverAddress) = SubSeq(b, Len(b) - 19, Len(b))

\* Witness: a record stored with NULL for its end, interface id, data and
\* revocation, as the second row of the table, was read back.
C39_Witness ==
    /\ ReadBack
    /\ postResponse[1].associationId = 2
    /\ associationsTable[2].valid_until = NULL
    /\ associationsTable[2].interface_id = NULL
    /\ associationsTable[2].data = NULL
    /\ associationsTable[2].revoked_at = NULL
    /\ rebuilt[2].sar.approverKeyType = K1
    /\ rebuilt[2].aar.interfaceId = NoInterfaceId

----------------------------------------------------------------------------
(* Claims about the fetches of the graph *)

\* The elements of a list.
Elements(list) == {list[i] : i \in DOMAIN list}

\* C38: whenever every fetch started has settled, the two lists hold only
\* records fetched for the current target address, and none without one.
C38_StaleFetchHasNoEffect ==
    flights = {} =>
        /\ Elements(onchainAssociations) \subseteq
              (IF targetAddress = NULL THEN {}
               ELSE Elements(fetchedOnchain(targetAddress)))
        /\ Elements(offchainAssociations) \subseteq
              (IF targetAddress = NULL THEN {}
               ELSE Elements(fetchedOffchain(targetAddress)))

----------------------------------------------------------------------------
(* Claims about the creation flow *)

\* A key type fits a signature when it is what the resolver can return for
\* it: 0 for none, ERC6492 for one that ends with the magic suffix, K1 or
\* ERC1271 for any other.
KeyTypeFits(signature, kt) ==
    IF signature = Hex(<<>>) THEN kt = 0
    ELSE IF WrapperTagged(signature) THEN kt = ERC6492
    ELSE kt \in {K1, ERC1271}

\* C31: in every state of the creation flow a party's key type differs from
\* the initial 0 only if that party's signature is there, and it is the
\* resolver's classification of the signature stored beside it.
C31_KeyTypeWithSignature ==
    /\ KeyTypeFits(writeSar.initiatorSignature, writeSar.initiatorKeyType)
    /\ KeyTypeFits(writeSar.approverSignature, writeSar.approverKeyType)

\* Witness: both parties have signed, the initiator through a wallet whose
\* code query failed, the approver with a wrapped signature.
C31_Witness ==
    /\ flowStep = "store-association"
    /\ writeSar.initiatorSignature = walletSignature(AddrA)
    /\ writeSar.initiatorKeyType = K1
    /\ writeSar.approverSignature = walletSignature(AddrB)
    /\ writeSar.approverKeyType = ERC6492

\* A signature is there.
Signed(signature) == signature # Hex(<<>>)

\* C32: the approver's signature is there only beside the initiator's, and
\* the flow is at 'store-association' or 'complete' only with both.
C32_InitiatorThenApproverThenStore ==
    /\ Signed(writeSar.approverSignature) => Signed(writeSar.initiatorSignature)
    /\ flowStep \in {"store-association", "complete"} =>
          /\ Signed(writeSar.initiatorSignature)
          /\ Signed(writeSar.approverSignature)

\* The steps from 'sign-initiator' on.
LaterSteps ==
    {"sign-initiator", "connect-approver", "sign-approver",
     "store-association", "complete"}

\* A wallet connects in this step.
FreshConnection == connectedAddress = NULL /\ connectedAddress' # NULL

\* The wallet that connects in this step is the declared approver's.
ApproverConnects ==
    /\ panel.approverInput # NULL
    /\ hexToLowerCase(connectedAddress') = hexToLowerCase(panel.approverInput)

\* What a step does at 'connect-approver'.
ApproverStep ==
    /\ (flowStep = "connect-approver" /\ flowStep' = "sign-approver") =>
          (FreshConnection /\ ApproverConnects)
    /\ (flowStep = "connect-approver" /\ FreshConnection /\ ~ApproverConnects) =>
          (/\ flowStep' = "connect-approver"
           /\ panel'.error = Some("Wrong wallet"))

\* C40: the flow goes from 'connect-approver' to 'sign-approver' only when
\* a wallet connects whose address is the declared approver's, whatever
\* the case of its letters; when any other wallet connects the flow stays
\* and the error is 'Wrong wallet'; and from 'sign-initiator' on the AAR
\* names two different addresses.
C40_ApproverStepGuarded ==
    /\ [][ApproverStep]_vars
    /\ [](flowStep \in LaterSteps =>
            extractAddress(writeAar.initiator) # extractAddress(writeAar.approver))

----------------------------------------------------------------------------
(* Claims about revoking from the flow *)

\* handleRevoke of the database method ends in this step.
RevokeEnds == isRevoking /\ ~isRevoking'

\* What the end of handleRevoke leaves.
RevokeOutcome ==
    /\ (RevokeEnds /\ response.success) =>
          db'[StoredId].revoked_at = Some(writeSar'.revokedAt)
    /\ (RevokeEnds /\ ~response.success) =>
          (writeSar' = writeSar /\ panel'.error # NULL)

\* C36: when handleRevoke ends after a response of success, the local
\* revokedAt is the revoked_at of the row; when it ends otherwise, the
\* local SAR is as before and an error is set.
C36_LocalRevokedAtIsStored ==
    [][RevokeOutcome]_vars

\* A record revoked stays as it is, and so does the empty record.
RecordRests ==
    /\ (writeSar.revokedAt # 0 /\ flowStep' = flowStep /\ ~isRevoking) =>
          writeSar' = writeSar
    /\ (flowStep = "connect-initiator" /\ writeSar = createEmptySAR
           /\ ~isRevoking) =>
          writeSar' = createEmptySAR

\* C37: once the revoke transaction is confirmed and revokedAt recorded,
\* the record no longer changes while the flow stays where it is, and
\* after 'Start Over' the SAR stays the empty SAR.
C37_ConfirmationSettles ==
    [][RecordRests]_vars

============================================================================
